---- MODULE Spec2Model ----
(***************************************************************************)
(* Turn-resolution engine of Roland Gamos: the multiplayer Game            *)
(* (GameService + GameManager) and the solo Run (SoloManager), with the    *)
(* per-turn timers and the asynchronous validation of a submitted artist.  *)
(*                                                                         *)
(* The server is a single Node.js event loop: a handler runs atomically    *)
(* up to its first await on the validation chain, and resumes atomically   *)
(* when the validation settles.  A submit is therefore two steps (begin,   *)
(* complete) around which timers and other submits may run.                *)
(***************************************************************************)
EXTENDS Integers, Sequences, FiniteSets, Bags, TLC

\* ---- program constants -------------------------------------------------
TURN_DURATION_MS == 30000
MAX_ATTEMPTS_PER_TURN == 2

\* ---- bounds of the model -----------------------------------------------
MaxPlayers == 3      \* players ever created (createPlayer calls with a fresh id)
NumArtists == 2      \* artists known to the external sources
MaxInflight == 2     \* submits awaiting validation at the same time
MaxProposals == 3    \* submits that reach the validation, over one behaviour
MaxTicks == 2        \* clock advances explored

\* Date.now() is observed once per turn duration: the clock starts at StartMs
\* and a tick takes it exactly to the deadline of a turn opened before it.
TickMs == TURN_DURATION_MS
StartMs == TickMs
MaxTime == StartMs + MaxTicks * TickMs

\* ---- values ------------------------------------------------------------
WAITING == "waiting"
IN_PROGRESS == "in_progress"
FINISHED == "finished"
ABSENT == "absent"            \* no entry in the games / runs map

Artists == 1..NumArtists      \* the artists of the external catalogue
ArtistNames == Artists        \* a submitted name, numbered after the artist it denotes
NO_MBID == 0                  \* CanonicalArtist.mbid undefined
\* CanonicalArtist { name, mbid? }; NO_ARTIST is lastArtist undefined / null.
CanonicalArtist(name, mbid) == [name |-> name, mbid |-> mbid]
NO_ARTIST == CanonicalArtist(0, NO_MBID)
\* An MBID and a name are different strings: a name used as a dedup key is
\* kept apart from every MBID.
NameKey(name) == 0 - name
UNDEFINED_AT == 0             \* currentTurnEndsAt undefined (falsy, like 0)

VARIABLES
  now,          \* Date.now()
  game,         \* GameManager.games entry of the game
  gameTimer,    \* GameManager.gameTimers entry of the game
  inflight,     \* proposeArtist calls suspended at `await validateMove`
  idsIssued,    \* number of distinct player ids handed out so far
  proposals,    \* submits that have reached the validation so far
  run,          \* SoloManager.runs entry of the run
  runTimer,     \* SoloManager.runTimers entry of the run
  runLock,      \* SoloManager.runLocks entry of the run
  runInflight,  \* makeMove calls suspended at `await validateMove`
  lastResult,   \* what the last submit returned, if the last handler was a submit
  validations,          \* validateMove calls, by number: where each one stands
  collaborationCache,   \* WikidataService: pair key -> cached answer
  artistQidCache,       \* WikidataService: name -> cached QID
  retrying,             \* one call of retry, followed attempt by attempt
  providerCache,        \* pairStatsCache, degreeCache, categoryCache: the entries of one pair
  scored                \* one call of calculateScore: its arguments and what it returned

gameVars == <<game, gameTimer, inflight, idsIssued, proposals>>
runVars == <<run, runTimer, runLock, runInflight>>
engineVars == <<now, gameVars, runVars, lastResult>>
valVars == <<validations, collaborationCache, artistQidCache, retrying>>
scoreVars == <<providerCache, scored>>
vars == <<engineVars, valVars, scoreVars>>

\* ---- types/Player.ts, types/Turn.ts, types/Game.ts ---------------------
createPlayer(id, name) == [id |-> id, name |-> name, isEliminated |-> FALSE]

\* timestamp and validationSource are written once and never read by the
\* engine; they are left out of the record.
createTurn(playerId, artistName, isValid, attemptNumber, invalidReason) ==
  [playerId |-> playerId, artistName |-> artistName, isValid |-> isValid,
   attemptNumber |-> attemptNumber, invalidReason |-> invalidReason]

NoGame ==
  [status |-> ABSENT, players |-> <<>>, turns |-> <<>>, currentPlayerIndex |-> 0,
   lastArtist |-> NO_ARTIST, usedArtists |-> <<>>,
   currentTurnEndsAt |-> UNDEFINED_AT, attemptsUsed |-> 0]

NoTimer == [set |-> FALSE, at |-> 0, live |-> FALSE]

\* What a submit handler (proposeArtist, makeMove) returned; NoResult once
\* any other handler has run since.
Result(op, isValid, reason) == [op |-> op, isValid |-> isValid, reason |-> reason]
NoResult == Result("none", FALSE, "NONE")

\* ---- helpers -----------------------------------------------------------
ActivePlayers(players) == {i \in DOMAIN players : ~players[i].isEliminated}
PlayerIds(players) == {players[i].id : i \in DOMAIN players}
PlayerNames(players) == {players[i].name : i \in DOMAIN players}
SeqToSet(s) == {s[i] : i \in DOMAIN s}

\* ---- GameService -------------------------------------------------------
RECURSIVE SkipEliminated(_, _, _)
SkipEliminated(players, nextIndex, attempts) ==
  IF players[nextIndex + 1].isEliminated /\ attempts < Len(players)
  THEN SkipEliminated(players, (nextIndex + 1) % Len(players), attempts + 1)
  ELSE nextIndex

\* Faulty variant: the next index is taken without skipping the eliminated.
moveToNextPlayer_NoSkip(g) ==
  LET nextIndex == (g.currentPlayerIndex + 1) % Len(g.players)
  IN IF Cardinality(ActivePlayers(g.players)) <= 1
     THEN [g EXCEPT !.status = FINISHED, !.currentPlayerIndex = nextIndex,
                    !.currentTurnEndsAt = UNDEFINED_AT, !.attemptsUsed = 0]
     ELSE [g EXCEPT !.currentPlayerIndex = nextIndex]

moveToNextPlayer(g) ==
  LET nextIndex == SkipEliminated(g.players, (g.currentPlayerIndex + 1) % Len(g.players), 0)
  IN IF Cardinality(ActivePlayers(g.players)) <= 1
     THEN [g EXCEPT !.status = FINISHED, !.currentPlayerIndex = nextIndex,
                    !.currentTurnEndsAt = UNDEFINED_AT, !.attemptsUsed = 0]
     ELSE [g EXCEPT !.currentPlayerIndex = nextIndex]

\* Faulty variant: a new turn keeps the attempts of the previous one.
startTurn_KeepsAttempts(g, t) ==
  IF g.players[g.currentPlayerIndex + 1].isEliminated
  THEN moveToNextPlayer(g)
  ELSE [g EXCEPT !.currentTurnEndsAt = t + TURN_DURATION_MS]

startTurn(g, t) ==
  IF g.players[g.currentPlayerIndex + 1].isEliminated
  THEN moveToNextPlayer(g)
  ELSE [g EXCEPT !.currentTurnEndsAt = t + TURN_DURATION_MS, !.attemptsUsed = 0]

FirstActiveIndex(players) ==
  IF ActivePlayers(players) = {} THEN 0
  ELSE (CHOOSE i \in ActivePlayers(players) : \A j \in ActivePlayers(players) : i <= j) - 1

GameService_startGame(g, t) ==
  startTurn([g EXCEPT !.status = IN_PROGRESS,
                      !.currentPlayerIndex = FirstActiveIndex(g.players),
                      !.attemptsUsed = 0], t)

isTurnExpired(g, t) ==
  IF g.currentTurnEndsAt = UNDEFINED_AT THEN FALSE ELSE t >= g.currentTurnEndsAt

\* Faulty variant: the elimination forgets to finish the game when one player is left.
eliminatePlayer_KeepsStatus(g, playerId) ==
  [g EXCEPT !.players = [i \in DOMAIN g.players |->
                           IF g.players[i].id = playerId
                           THEN [g.players[i] EXCEPT !.isEliminated = TRUE]
                           ELSE g.players[i]]]

eliminatePlayer(g, playerId) ==
  LET updatedPlayers == [i \in DOMAIN g.players |->
                           IF g.players[i].id = playerId
                           THEN [g.players[i] EXCEPT !.isEliminated = TRUE]
                           ELSE g.players[i]]
  IN [g EXCEPT !.players = updatedPlayers,
               !.status = IF Cardinality(ActivePlayers(updatedPlayers)) <= 1
                          THEN FINISHED ELSE g.status]

getCanonicalId(canonical) ==
  IF canonical.mbid # NO_MBID THEN canonical.mbid ELSE NameKey(canonical.name)

isArtistUsed(g, canonical) == getCanonicalId(canonical) \in SeqToSet(g.usedArtists)

WithTurn(g, turn) == [g EXCEPT !.turns = Append(g.turns, turn)]


\* ---- ValidationService.validateMove ------------------------------------
\* resolveArtist, when it finds the artist: the canonical name and the MBID
\* of the catalogue entry (artist n has MBID n).
Resolved(name) == CanonicalArtist(name, name)

ValidationResult(exists, validRelation, canonical, singleCircularCollab) ==
  [threw |-> FALSE, exists |-> exists, validRelation |-> validRelation,
   canonical |-> canonical, singleCircularCollab |-> singleCircularCollab]

ValidationThrew ==
  [threw |-> TRUE, exists |-> FALSE, validRelation |-> FALSE,
   canonical |-> NO_ARTIST, singleCircularCollab |-> FALSE]

\* Faulty variant: the relation is queried for a first move too.
validateMove_AlwaysRelation(previousArtist, proposedArtistName) ==
  {ValidationThrew,
   ValidationResult(FALSE, FALSE, CanonicalArtist(proposedArtistName, NO_MBID), FALSE),
   ValidationResult(TRUE, FALSE, Resolved(proposedArtistName), FALSE),
   ValidationResult(TRUE, TRUE, Resolved(proposedArtistName), FALSE)}

\* Every result validateMove can settle with, the answers of the external
\* sources being free: resolveArtist throws, finds nothing, or finds the artist;
\* no previous artist => relation accepted without a query; otherwise the
\* relation is refused by both sources or confirmed by one of them, and the
\* single-circular flag is computed only for a confirmed relation between two
\* artists that both carry an MBID.
validateMove(previousArtist, proposedArtistName) ==
  {ValidationThrew,
   ValidationResult(FALSE, FALSE, CanonicalArtist(proposedArtistName, NO_MBID), FALSE)}
  \cup
  (IF previousArtist = NO_ARTIST
   THEN {ValidationResult(TRUE, TRUE, Resolved(proposedArtistName), FALSE)}
   ELSE {ValidationResult(TRUE, FALSE, Resolved(proposedArtistName), FALSE)}
        \cup {ValidationResult(TRUE, TRUE, Resolved(proposedArtistName), single) :
                single \in IF previousArtist.mbid # NO_MBID THEN BOOLEAN ELSE {FALSE}})

\* ---- GameService.proposeArtist -----------------------------------------
Proposal(isValid, reason, g) == [isValid |-> isValid, reason |-> reason, game |-> g]

\* Faulty variant: anybody may play the turn of the holder.
proposeArtistGuards_NoHolderCheck(g, playerId, artistName, t) ==
  LET attemptsUsed == g.attemptsUsed + 1
  IN IF g.status # IN_PROGRESS THEN Proposal(FALSE, "OTHER", g)
     ELSE IF isTurnExpired(g, t)
     THEN Proposal(FALSE, "TIMEOUT",
            WithTurn(eliminatePlayer(g, playerId),
                     createTurn(playerId, artistName, FALSE, g.attemptsUsed, "TIMEOUT")))
     ELSE IF attemptsUsed > MAX_ATTEMPTS_PER_TURN
     THEN Proposal(FALSE, "OTHER",
            WithTurn(eliminatePlayer(g, playerId),
                     createTurn(playerId, artistName, FALSE, attemptsUsed, "OTHER")))
     ELSE Proposal(FALSE, "AWAIT", g)

\* Faulty variant: the deadline is not looked at before the validation.
proposeArtistGuards_NoDeadline(g, playerId, artistName, t) ==
  LET currentPlayer == g.players[g.currentPlayerIndex + 1]
  IN IF g.status # IN_PROGRESS THEN Proposal(FALSE, "OTHER", g)
     ELSE IF currentPlayer.id # playerId THEN Proposal(FALSE, "OTHER", g)
     ELSE IF currentPlayer.isEliminated THEN Proposal(FALSE, "OTHER", g)
     ELSE Proposal(FALSE, "AWAIT", g)

\* Steps 1-5: the guards evaluated before the validation is awaited.
\* "AWAIT" stands for reaching the await with no result yet.
proposeArtistGuards(g, playerId, artistName, t) ==
  LET currentPlayer == g.players[g.currentPlayerIndex + 1]
      attemptsUsed == g.attemptsUsed + 1
  IN IF g.status # IN_PROGRESS THEN Proposal(FALSE, "OTHER", g)
     ELSE IF currentPlayer.id # playerId THEN Proposal(FALSE, "OTHER", g)
     ELSE IF currentPlayer.isEliminated THEN Proposal(FALSE, "OTHER", g)
     ELSE IF isTurnExpired(g, t)
     THEN Proposal(FALSE, "TIMEOUT",
            WithTurn(eliminatePlayer(g, playerId),
                     createTurn(playerId, artistName, FALSE, g.attemptsUsed, "TIMEOUT")))
     ELSE IF attemptsUsed > MAX_ATTEMPTS_PER_TURN
     THEN Proposal(FALSE, "OTHER",
            WithTurn(eliminatePlayer(g, playerId),
                     createTurn(playerId, artistName, FALSE, attemptsUsed, "OTHER")))
     ELSE Proposal(FALSE, "AWAIT", g)

\* Faulty variant: a rejection consumes an attempt and never eliminates.
softRejection_NeverEliminates(g, playerId, artistName, attemptsUsed, reason) ==
  Proposal(FALSE, reason,
           WithTurn([g EXCEPT !.attemptsUsed = attemptsUsed],
                    createTurn(playerId, artistName, FALSE, attemptsUsed, reason)))

\* Faulty variant: the budget test is off by one, the first rejection eliminates.
softRejection_OffByOne(g, playerId, artistName, attemptsUsed, reason) ==
  LET updatedGame == [g EXCEPT !.attemptsUsed = attemptsUsed]
      turn == createTurn(playerId, artistName, FALSE, attemptsUsed, reason)
  IN IF attemptsUsed >= MAX_ATTEMPTS_PER_TURN - 1
     THEN Proposal(FALSE, reason, WithTurn(eliminatePlayer(updatedGame, playerId), turn))
     ELSE Proposal(FALSE, reason, WithTurn(updatedGame, turn))

\* Steps 9-11: a rejection that consumes an attempt.
softRejection(g, playerId, artistName, attemptsUsed, reason) ==
  LET updatedGame == [g EXCEPT !.attemptsUsed = attemptsUsed]
      turn == createTurn(playerId, artistName, FALSE, attemptsUsed, reason)
  IN IF attemptsUsed >= MAX_ATTEMPTS_PER_TURN
     THEN Proposal(FALSE, reason, WithTurn(eliminatePlayer(updatedGame, playerId), turn))
     ELSE Proposal(FALSE, reason, WithTurn(updatedGame, turn))

\* Faulty variant: the single-circular flag is not looked at.
proposeArtistSettle_IgnoresSingleCircular(g, playerId, artistName, v, t) ==
  LET attemptsUsed == g.attemptsUsed + 1
  IN IF v.exists /\ isArtistUsed(g, v.canonical)
     THEN Proposal(FALSE, "REPEAT",
            WithTurn(eliminatePlayer(g, playerId),
                     createTurn(playerId, artistName, FALSE, attemptsUsed, "REPEAT")))
     ELSE IF ~v.exists
     THEN softRejection(g, playerId, artistName, attemptsUsed, "NOT_FOUND")
     ELSE IF ~v.validRelation
     THEN softRejection(g, playerId, artistName, attemptsUsed, "NO_RELATION")
     ELSE Proposal(TRUE, "NONE",
            startTurn(moveToNextPlayer(
              [g EXCEPT !.turns = Append(g.turns,
                           createTurn(playerId, artistName, TRUE, attemptsUsed, "NONE")),
                        !.lastArtist = v.canonical,
                        !.usedArtists = Append(g.usedArtists, getCanonicalId(v.canonical))]), t))

\* Faulty variant: the relation is checked before the repeat rule.
proposeArtistSettle_RelationFirst(g, playerId, artistName, v, t) ==
  LET attemptsUsed == g.attemptsUsed + 1
  IN IF ~v.exists
     THEN softRejection(g, playerId, artistName, attemptsUsed, "NOT_FOUND")
     ELSE IF ~v.validRelation
     THEN softRejection(g, playerId, artistName, attemptsUsed, "NO_RELATION")
     ELSE IF isArtistUsed(g, v.canonical)
     THEN Proposal(FALSE, "REPEAT",
            WithTurn(eliminatePlayer(g, playerId),
                     createTurn(playerId, artistName, FALSE, attemptsUsed, "REPEAT")))
     ELSE Proposal(TRUE, "NONE",
            startTurn(moveToNextPlayer(
              [g EXCEPT !.turns = Append(g.turns,
                           createTurn(playerId, artistName, TRUE, attemptsUsed, "NONE")),
                        !.lastArtist = v.canonical,
                        !.usedArtists = Append(g.usedArtists, getCanonicalId(v.canonical))]), t))

\* Steps 8-12: what proposeArtist returns once validateMove has settled with v,
\* computed on the game object g it was called with.
proposeArtistSettle(g, playerId, artistName, v, t) ==
  LET attemptsUsed == g.attemptsUsed + 1
  IN IF v.exists /\ isArtistUsed(g, v.canonical)
     THEN Proposal(FALSE, "REPEAT",
            WithTurn(eliminatePlayer(g, playerId),
                     createTurn(playerId, artistName, FALSE, attemptsUsed, "REPEAT")))
     ELSE IF ~v.exists
     THEN softRejection(g, playerId, artistName, attemptsUsed, "NOT_FOUND")
     ELSE IF ~v.validRelation
     THEN softRejection(g, playerId, artistName, attemptsUsed, "NO_RELATION")
     ELSE IF v.singleCircularCollab
     THEN softRejection(g, playerId, artistName, attemptsUsed, "SINGLE_CIRCULAR")
     ELSE Proposal(TRUE, "NONE",
            startTurn(moveToNextPlayer(
              [g EXCEPT !.turns = Append(g.turns,
                           createTurn(playerId, artistName, TRUE, attemptsUsed, "NONE")),
                        !.lastArtist = v.canonical,
                        !.usedArtists = Append(g.usedArtists, getCanonicalId(v.canonical))]), t))


\* ---- GameManager: timers -----------------------------------------------
EMPTY_NAME == 0 - 1           \* the '' artist name of a timer-made turn

\* Faulty variant: the callback does not look at the deadline again.
timeoutApplies_NoDeadline(g, t) ==
  /\ g.status = IN_PROGRESS
  /\ ~g.players[g.currentPlayerIndex + 1].isEliminated

\* The guards of handleTurnTimeout: does the callback act on g at time t?
timeoutApplies(g, t) ==
  /\ g.status = IN_PROGRESS
  /\ isTurnExpired(g, t)
  /\ ~g.players[g.currentPlayerIndex + 1].isEliminated

\* scheduleTurnTimer and handleTurnTimeout call each other; both return the
\* stored game and the gameTimers entry they leave behind.
RECURSIVE handleTurnTimeout(_, _, _)

scheduleTurnTimer(g, t) ==
  IF g.status # IN_PROGRESS \/ g.currentTurnEndsAt = UNDEFINED_AT
  THEN [game |-> g, timer |-> NoTimer]
  ELSE IF g.currentTurnEndsAt - t <= 0
  THEN handleTurnTimeout(g, NoTimer, t)
  ELSE [game |-> g, timer |-> [set |-> TRUE, at |-> g.currentTurnEndsAt, live |-> TRUE]]

handleTurnTimeout(g, timer, t) ==
  IF ~timeoutApplies(g, t)
  THEN [game |-> g, timer |-> timer]
  ELSE LET currentPlayer == g.players[g.currentPlayerIndex + 1]
           turn == createTurn(currentPlayer.id, EMPTY_NAME, FALSE, g.attemptsUsed, "TIMEOUT")
           nextGame == moveToNextPlayer(WithTurn(eliminatePlayer(g, currentPlayer.id), turn))
           finalGame == IF nextGame.status = IN_PROGRESS
                        THEN startTurn(nextGame, t)
                        ELSE [nextGame EXCEPT !.currentTurnEndsAt = UNDEFINED_AT,
                                              !.attemptsUsed = 0]
       IN IF finalGame.status = IN_PROGRESS
          THEN scheduleTurnTimer(finalGame, t)
          ELSE [game |-> finalGame, timer |-> NoTimer]

\* ---- GameManager: operations -------------------------------------------
\* `player-${Date.now()}`: the ids of players created in different
\* milliseconds, numbered in the order of their creation.
NewPlayerIds == IF idsIssued < MaxPlayers THEN {idsIssued + 1} ELSE {}

\* `player-${Date.now()}` evaluated in the millisecond in which the last
\* player was created: the same string again.
SameMillisecondIds == IF idsIssued > 0 THEN {idsIssued} ELSE {}

IssueId(id) == idsIssued' = id

\* One game is followed from its creation on.
CreateGame ==
  /\ game.status = ABSENT /\ run.status = ABSENT
  /\ \E id \in NewPlayerIds :
       /\ game' = [NoGame EXCEPT !.status = WAITING, !.players = <<createPlayer(id, 1)>>]
       /\ IssueId(id)
  /\ lastResult' = NoResult
  /\ UNCHANGED <<now, gameTimer, inflight, proposals, runVars>>
  /\ UNCHANGED <<valVars, scoreVars>>

\* The names a join request may carry: one already in the game (a
\* reconnection) or the next new one.
JoinNames ==
  PlayerNames(game.players)
  \cup {CHOOSE n \in 1..(MaxPlayers + 1) :
          /\ n \notin PlayerNames(game.players)
          /\ \A m \in 1..(n - 1) : m \in PlayerNames(game.players)}

JoinGameWith(playerName, ids) ==
  /\ game.status # ABSENT
  /\ IF playerName \in PlayerNames(game.players)
     THEN /\ lastResult' = NoResult
          /\ UNCHANGED <<game, idsIssued>>
     ELSE IF game.status = IN_PROGRESS
     THEN /\ lastResult' = NoResult
          /\ UNCHANGED <<game, idsIssued>>
     ELSE /\ Len(game.players) < MaxPlayers
          /\ \E id \in ids :
               /\ game' = [game EXCEPT !.players = Append(game.players, createPlayer(id, playerName))]
               /\ IssueId(id)
          /\ lastResult' = NoResult
  /\ UNCHANGED <<now, gameTimer, inflight, proposals, runVars>>
  /\ UNCHANGED <<valVars, scoreVars>>

\* A join in a later millisecond than the creation before it.
JoinGame(playerName) == JoinGameWith(playerName, NewPlayerIds)

\* A join at any time, the millisecond of the creation before it included.
JoinGameAnyTime(playerName) ==
  JoinGameWith(playerName, NewPlayerIds \cup SameMillisecondIds)

\* Faulty variant: any participant may start the game.
StartGame_NoHostCheck(playerId) ==
  /\ game.status # ABSENT
  /\ IF Len(game.players) < 2 \/ game.status # WAITING
     THEN /\ lastResult' = NoResult
          /\ UNCHANGED <<game, gameTimer>>
     ELSE LET scheduled == scheduleTurnTimer(GameService_startGame(game, now), now)
          IN /\ game' = scheduled.game
             /\ gameTimer' = scheduled.timer
             /\ lastResult' = NoResult
  /\ UNCHANGED <<now, inflight, idsIssued, proposals, runVars>>
  /\ UNCHANGED <<valVars, scoreVars>>

StartGame(playerId) ==
  /\ game.status # ABSENT
  /\ IF game.players[1].id # playerId
     THEN /\ lastResult' = NoResult
          /\ UNCHANGED <<game, gameTimer>>
     ELSE IF Len(game.players) < 2
     THEN /\ lastResult' = NoResult
          /\ UNCHANGED <<game, gameTimer>>
     ELSE IF game.status # WAITING
     THEN /\ lastResult' = NoResult
          /\ UNCHANGED <<game, gameTimer>>
     ELSE LET scheduled == scheduleTurnTimer(GameService_startGame(game, now), now)
          IN /\ game' = scheduled.game
             /\ gameTimer' = scheduled.timer
             /\ lastResult' = NoResult
  /\ UNCHANGED <<now, inflight, idsIssued, proposals, runVars>>
  /\ UNCHANGED <<valVars, scoreVars>>

\* The setTimeout callback: it runs once, not before its time.
TimerFire ==
  /\ gameTimer.set /\ gameTimer.live
  /\ now >= gameTimer.at
  /\ LET fired == handleTurnTimeout(game, [gameTimer EXCEPT !.live = FALSE], now)
     IN /\ game' = fired.game
        /\ gameTimer' = fired.timer
        /\ lastResult' = NoResult
  /\ UNCHANGED <<now, inflight, idsIssued, proposals, runVars>>
  /\ UNCHANGED <<valVars, scoreVars>>

\* Faulty variant: the reset leaves the timer of the finished game alone.
ResetGame_KeepsTimer(playerId) ==
  /\ game.status # ABSENT
  /\ IF game.players[1].id # playerId \/ game.status # FINISHED
     THEN /\ lastResult' = NoResult
          /\ UNCHANGED <<game, gameTimer>>
     ELSE /\ game' = [game EXCEPT !.status = WAITING, !.turns = <<>>,
                                  !.currentPlayerIndex = 0, !.lastArtist = NO_ARTIST,
                                  !.usedArtists = <<>>, !.currentTurnEndsAt = UNDEFINED_AT,
                                  !.attemptsUsed = 0,
                                  !.players = [i \in DOMAIN game.players |->
                                                 [game.players[i] EXCEPT !.isEliminated = FALSE]]]
          /\ lastResult' = NoResult
          /\ UNCHANGED gameTimer
  /\ UNCHANGED <<now, inflight, idsIssued, proposals, runVars>>
  /\ UNCHANGED <<valVars, scoreVars>>

ResetGame(playerId) ==
  /\ game.status # ABSENT
  /\ IF game.players[1].id # playerId
     THEN /\ lastResult' = NoResult
          /\ UNCHANGED <<game, gameTimer>>
     ELSE IF game.status # FINISHED
     THEN /\ lastResult' = NoResult
          /\ UNCHANGED <<game, gameTimer>>
     ELSE /\ game' = [game EXCEPT !.status = WAITING, !.turns = <<>>,
                                  !.currentPlayerIndex = 0, !.lastArtist = NO_ARTIST,
                                  !.usedArtists = <<>>, !.currentTurnEndsAt = UNDEFINED_AT,
                                  !.attemptsUsed = 0,
                                  !.players = [i \in DOMAIN game.players |->
                                                 [game.players[i] EXCEPT !.isEliminated = FALSE]]]
          /\ gameTimer' = NoTimer
          /\ lastResult' = NoResult
  /\ UNCHANGED <<now, inflight, idsIssued, proposals, runVars>>
  /\ UNCHANGED <<valVars, scoreVars>>

\* proposeArtist up to the await: the game object is read from the map, the
\* guards run, and either the call returns at once (and its game is stored)
\* or it is suspended holding the object it read.
Call(playerId, artistName, g) == [playerId |-> playerId, artistName |-> artistName, game |-> g]

ProposeBegin(playerId, artistName) ==
  /\ game.status # ABSENT
  /\ LET r == proposeArtistGuards(game, playerId, artistName, now)
     IN IF r.reason = "AWAIT"
        THEN /\ BagCardinality(inflight) < MaxInflight
             /\ proposals < MaxProposals
             /\ proposals' = proposals + 1
             /\ inflight' = inflight (+) SetToBag({Call(playerId, artistName, game)})
             /\ lastResult' = NoResult
             /\ UNCHANGED game
        ELSE /\ game' = r.game
             /\ lastResult' = Result("proposeArtist", r.isValid, r.reason)
             /\ UNCHANGED <<inflight, proposals>>
  /\ UNCHANGED <<now, gameTimer, idsIssued, runVars>>
  /\ UNCHANGED <<valVars, scoreVars>>

\* proposeArtist from the await on: the validation settles with v and the
\* returned game replaces the stored one; a throw leaves the map untouched.
ProposeComplete(c, v) ==
  /\ BagIn(c, inflight)
  /\ v \in validateMove(c.game.lastArtist, c.artistName)
  /\ inflight' = inflight (-) SetToBag({c})
  /\ IF v.threw
     THEN /\ lastResult' = Result("proposeArtist", FALSE, "THROWN")
          /\ UNCHANGED game
     ELSE LET r == proposeArtistSettle(c.game, c.playerId, c.artistName, v, now)
          IN /\ game' = r.game
             /\ lastResult' = Result("proposeArtist", r.isValid, r.reason)
  /\ UNCHANGED <<now, gameTimer, idsIssued, proposals, runVars>>
  /\ UNCHANGED <<valVars, scoreVars>>

\* Time passes.
Tick ==
  /\ now + TickMs <= MaxTime
  /\ now' = now + TickMs
  /\ lastResult' = NoResult
  /\ UNCHANGED <<gameVars, runVars>>
  /\ UNCHANGED <<valVars, scoreVars>>

\* ---- ScoringService ----------------------------------------------------
\* The multipliers are kept as exact fractions: hundredths for the pair and
\* degree bonuses, fiftieths for the category and time bonuses, twentieths
\* for the chain bonus.
BASE_POINTS == 100
SCORE_CAP == 280

calculatePairBonus(pairFamilyCount) ==
  IF pairFamilyCount = 0 THEN 100
  ELSE IF pairFamilyCount = 1 THEN 130
  ELSE IF pairFamilyCount >= 2 /\ pairFamilyCount <= 3 THEN 118
  ELSE IF pairFamilyCount >= 4 /\ pairFamilyCount <= 7 THEN 108
  ELSE IF pairFamilyCount >= 8 /\ pairFamilyCount <= 15 THEN 103
  ELSE 100

\* Faulty variant: the third bucket reaches one degree too far.
calculateDegreeBonus_WideBucket(degree) ==
  IF degree >= 0 /\ degree <= 10 THEN 105
  ELSE IF degree >= 11 /\ degree <= 25 THEN 103
  ELSE IF degree >= 26 /\ degree <= 61 THEN 101
  ELSE 100

calculateDegreeBonus(degree) ==
  IF degree >= 0 /\ degree <= 10 THEN 105
  ELSE IF degree >= 11 /\ degree <= 25 THEN 103
  ELSE IF degree >= 26 /\ degree <= 60 THEN 101
  ELSE 100

calculateCategoryBonus(category) ==
  CASE category = "ultra_mainstream" -> 50
    [] category = "mainstream" -> 51
    [] category = "connu" -> 52
    [] category = "niche" -> 54
    [] category = "underground" -> 56

calculateTimeBonus(timeSpentSeconds) ==
  IF timeSpentSeconds <= 5 THEN 60
  ELSE IF timeSpentSeconds >= 6 /\ timeSpentSeconds <= 10 THEN 56
  ELSE IF timeSpentSeconds >= 11 /\ timeSpentSeconds <= 20 THEN 53
  ELSE IF timeSpentSeconds >= 21 /\ timeSpentSeconds <= 35 THEN 51
  ELSE 50

Min(a, b) == IF a <= b THEN a ELSE b

\* Faulty variant: the chain bonus grows without its ceiling of 0.20.
calculateChainBonus_NoCeiling(turnNumber) ==
  20 + ((turnNumber - 1) \div 5)

calculateChainBonus(turnNumber) ==
  20 + Min(4, (turnNumber - 1) \div 5)

\* Math.round of numerator / denominator (both positive).
RoundDiv(numerator, denominator) ==
  (numerator \div denominator)
  + (IF 2 * (numerator % denominator) >= denominator THEN 1 ELSE 0)

\* Faulty variant: the raw score is truncated, not rounded.
calculateScore_Truncates(stats, turnNumber, timeSpentSeconds) ==
  Min((calculatePairBonus(stats.pairFamilyCount)
       * calculateDegreeBonus(stats.degree)
       * calculateCategoryBonus(stats.category)
       * calculateTimeBonus(timeSpentSeconds)
       * calculateChainBonus(turnNumber))
      \div ((100 * 100 * 50 * 50 * 20) \div BASE_POINTS), SCORE_CAP)

\* rawScore = BASE_POINTS * pair * degree * category * time * chain, then
\* min(round(rawScore), SCORE_CAP).  stats is what the three providers answer.
calculateScore(stats, turnNumber, timeSpentSeconds) ==
  LET numerator == calculatePairBonus(stats.pairFamilyCount)
                   * calculateDegreeBonus(stats.degree)
                   * calculateCategoryBonus(stats.category)
                   * calculateTimeBonus(timeSpentSeconds)
                   * calculateChainBonus(turnNumber)
      denominator == (100 * 100 * 50 * 50 * 20) \div BASE_POINTS
  IN Min(RoundDiv(numerator, denominator), SCORE_CAP)

\* What the pre-loaded providers answer for a pair: their defaults when
\* nothing is loaded, or a loaded entry.
ProviderDefaults == [pairFamilyCount |-> 0, degree |-> 0, category |-> "niche"]
ProviderAnswers(previousMbid, currentMbid) ==
  IF previousMbid = NO_MBID
  THEN {ProviderDefaults, [pairFamilyCount |-> 0, degree |-> 30, category |-> "connu"]}
  ELSE {ProviderDefaults, [pairFamilyCount |-> 1, degree |-> 30, category |-> "connu"]}

\* The provider caches, for the previous artist PREVIOUS_MBID and the
\* candidate CANDIDATE_MBID: what an offline job has loaded for the pair and
\* for the candidate, or nothing.
NOT_LOADED == 0 - 1          \* Map.get gives undefined
NO_CATEGORY == "absent"
PairCounts == {0, 1, 2, 3, 4, 7, 8, 15, 16, 20}
Degrees == {0, 5, 10, 11, 25, 26, 60, 61}
Categories == {"ultra_mainstream", "mainstream", "connu", "niche", "underground"}
Seconds == {0, 3, 5, 6, 10, 11, 20, 21, 35, 36, 40}
TurnNumbers == {1, 5, 6, 11, 16, 21, 26}
EmptyCaches == [pairStats |-> NOT_LOADED, degree |-> NOT_LOADED, category |-> NO_CATEGORY]

getPairFamilyCount(cache, artist1Mbid, artist2Mbid) ==
  IF artist1Mbid = NO_MBID \/ artist2Mbid = NO_MBID THEN 0
  ELSE IF cache.pairStats = NOT_LOADED THEN 0
  ELSE cache.pairStats

getDegree(cache, artistMbid) ==
  IF artistMbid = NO_MBID THEN 0
  ELSE IF cache.degree = NOT_LOADED THEN 0
  ELSE cache.degree

getCategory(cache, artistMbid) ==
  IF artistMbid = NO_MBID THEN "niche"
  ELSE IF cache.category = NO_CATEGORY THEN "niche"
  ELSE cache.category

\* The ScoringDetails calculateScore returns, the multipliers in the units
\* of the bonus operators.
ScoringDetails(cache, previousArtistMbid, currentArtistMbid, turnNumber, timeSpentSeconds) ==
  LET stats == [pairFamilyCount |-> getPairFamilyCount(cache, previousArtistMbid, currentArtistMbid),
                degree |-> getDegree(cache, currentArtistMbid),
                category |-> getCategory(cache, currentArtistMbid)]
  IN [basePoints |-> BASE_POINTS,
      pairBonus |-> calculatePairBonus(stats.pairFamilyCount),
      degreeBonus |-> calculateDegreeBonus(stats.degree),
      categoryBonus |-> calculateCategoryBonus(stats.category),
      timeBonus |-> calculateTimeBonus(timeSpentSeconds),
      chainBonus |-> calculateChainBonus(turnNumber),
      finalScore |-> calculateScore(stats, turnNumber, timeSpentSeconds),
      pairFamilyCount |-> stats.pairFamilyCount,
      degree |-> stats.degree,
      category |-> stats.category,
      timeSpent |-> timeSpentSeconds,
      chainLength |-> turnNumber]

NoScore == [called |-> FALSE]

setPairFamilyCount(count) ==
  /\ scored = NoScore
  /\ providerCache' = [providerCache EXCEPT !.pairStats = count]
  /\ UNCHANGED <<scored, engineVars, valVars>>

setDegree(degree) ==
  /\ scored = NoScore
  /\ providerCache' = [providerCache EXCEPT !.degree = degree]
  /\ UNCHANGED <<scored, engineVars, valVars>>

setCategory(category) ==
  /\ scored = NoScore
  /\ providerCache' = [providerCache EXCEPT !.category = category]
  /\ UNCHANGED <<scored, engineVars, valVars>>

clearCache ==
  /\ scored = NoScore
  /\ providerCache' = EmptyCaches
  /\ UNCHANGED <<scored, engineVars, valVars>>

\* calculateScore is called, and returns.
Score(previousArtistMbid, currentArtistMbid, turnNumber, timeSpentSeconds) ==
  /\ scored = NoScore
  /\ scored' = [called |-> TRUE,
                previousArtistMbid |-> previousArtistMbid,
                currentArtistMbid |-> currentArtistMbid,
                details |-> ScoringDetails(providerCache, previousArtistMbid, currentArtistMbid,
                                           turnNumber, timeSpentSeconds)]
  /\ UNCHANGED <<providerCache, engineVars, valVars>>

ScoreReturned ==
  /\ scored # NoScore
  /\ scored' = NoScore
  /\ UNCHANGED <<providerCache, engineVars, valVars>>

\* ---- types/SoloRun.ts, types/SoloMove.ts -------------------------------
\* timestamp, previousArtist, validationSource and the scoring details other
\* than finalScore are written once and never read by the engine.
createSoloMove(turn, artist, isValid, invalidReason, finalScore) ==
  [turn |-> turn, artist |-> artist, isValid |-> isValid,
   invalidReason |-> invalidReason, finalScore |-> finalScore]

NoRun ==
  [status |-> ABSENT, seedArtist |-> NO_ARTIST, currentArtist |-> NO_ARTIST,
   usedArtists |-> <<>>, moves |-> <<>>, currentTurn |-> 0,
   currentTurnEndsAt |-> UNDEFINED_AT, totalScore |-> 0, endReason |-> "NONE"]

\* Faulty variant: the seed is not recorded as used.
createSoloRun_NoSeedKey(seedArtist) ==
  [NoRun EXCEPT !.status = IN_PROGRESS, !.seedArtist = seedArtist,
                !.currentArtist = seedArtist, !.currentTurn = 1]

createSoloRun(seedArtist) ==
  [NoRun EXCEPT !.status = IN_PROGRESS, !.seedArtist = seedArtist,
                !.currentArtist = seedArtist,
                !.usedArtists = <<getCanonicalId(seedArtist)>>,
                !.currentTurn = 1]

\* ---- SoloManager -------------------------------------------------------
TIMEOUT_ARTIST == CanonicalArtist(0, NO_MBID)    \* { name: 'TIMEOUT' }

\* Faulty variant: the run is finished without recording the move.
Solo_finish_NoMove(r, move, endReason) ==
  [r EXCEPT !.status = FINISHED, !.endReason = endReason]

Solo_finish(r, move, endReason) ==
  [r EXCEPT !.status = FINISHED, !.moves = Append(r.moves, move), !.endReason = endReason]

\* handleTurnTimeout of a run: returns the stored run and the runTimers entry.
Solo_handleTurnTimeout(r, timer) ==
  IF r.status # IN_PROGRESS
  THEN [run |-> r, timer |-> timer]
  ELSE [run |-> Solo_finish(r, createSoloMove(r.currentTurn, TIMEOUT_ARTIST, FALSE, "TIMEOUT", 0),
                            "TIMEOUT"),
        timer |-> NoTimer]

Solo_scheduleTurnTimer(r, t) ==
  IF r.status # IN_PROGRESS \/ r.currentTurnEndsAt = UNDEFINED_AT
  THEN [run |-> r, timer |-> NoTimer]
  ELSE IF r.currentTurnEndsAt - t <= 0
  THEN Solo_handleTurnTimeout(r, NoTimer)
  ELSE [run |-> r, timer |-> [set |-> TRUE, at |-> r.currentTurnEndsAt, live |-> TRUE]]

Solo_isArtistUsed(r, canonical) == getCanonicalId(canonical) \in SeqToSet(r.usedArtists)

MoveResult(isValid, reason, r) == [isValid |-> isValid, reason |-> reason, run |-> r]

\* Faulty variant: makeMove without the lock check.
makeMoveGuards_NoLock(r, locked, timer, t) ==
  IF r.status # IN_PROGRESS THEN [result |-> MoveResult(FALSE, "OTHER", r), timer |-> timer]
  ELSE IF isTurnExpired(r, t)
  THEN LET fired == Solo_handleTurnTimeout(r, timer)
       IN [result |-> MoveResult(FALSE, "TIMEOUT", fired.run), timer |-> fired.timer]
  ELSE [result |-> MoveResult(FALSE, "AWAIT", r), timer |-> timer]

\* makeMove up to the await: lock, status and deadline checks.  "AWAIT"
\* stands for taking the lock and reaching the await.
makeMoveGuards(r, locked, timer, t) ==
  IF locked THEN [result |-> MoveResult(FALSE, "OTHER", r), timer |-> timer]
  ELSE IF r.status # IN_PROGRESS THEN [result |-> MoveResult(FALSE, "OTHER", r), timer |-> timer]
  ELSE IF isTurnExpired(r, t)
  THEN LET fired == Solo_handleTurnTimeout(r, timer)
       IN [result |-> MoveResult(FALSE, "TIMEOUT", fired.run), timer |-> fired.timer]
  ELSE [result |-> MoveResult(FALSE, "AWAIT", r), timer |-> timer]

\* Faulty variant: an accepted move does not advance the turn counter.
makeMoveSettle_KeepsTurn(r, artistName, v, stats, timeSpentSeconds, t) ==
  IF v.threw
  THEN MoveResult(FALSE, "OTHER",
         Solo_finish(r, createSoloMove(r.currentTurn, CanonicalArtist(artistName, NO_MBID),
                                       FALSE, "OTHER", 0), "OTHER"))
  ELSE IF ~v.exists
  THEN MoveResult(FALSE, "NOT_FOUND",
         Solo_finish(r, createSoloMove(r.currentTurn, CanonicalArtist(artistName, NO_MBID),
                                       FALSE, "NOT_FOUND", 0), "INVALID_FEAT"))
  ELSE IF Solo_isArtistUsed(r, v.canonical)
  THEN MoveResult(FALSE, "REPEAT",
         Solo_finish(r, createSoloMove(r.currentTurn, v.canonical, FALSE, "REPEAT", 0), "REPEAT"))
  ELSE IF ~v.validRelation
  THEN MoveResult(FALSE, "INVALID_FEAT",
         Solo_finish(r, createSoloMove(r.currentTurn, v.canonical, FALSE, "INVALID_FEAT", 0),
                     "INVALID_FEAT"))
  ELSE LET finalScore == calculateScore(stats, r.currentTurn, timeSpentSeconds)
       IN MoveResult(TRUE, "NONE",
            [r EXCEPT !.currentArtist = v.canonical,
                      !.usedArtists = Append(r.usedArtists, getCanonicalId(v.canonical)),
                      !.moves = Append(r.moves,
                                  createSoloMove(r.currentTurn, v.canonical, TRUE, "NONE", finalScore)),
                      !.totalScore = r.totalScore + finalScore,
                      !.currentTurnEndsAt = t + TURN_DURATION_MS])

\* makeMove from the await on, computed on the run object r read before it.
makeMoveSettle(r, artistName, v, stats, timeSpentSeconds, t) ==
  IF v.threw
  THEN MoveResult(FALSE, "OTHER",
         Solo_finish(r, createSoloMove(r.currentTurn, CanonicalArtist(artistName, NO_MBID),
                                       FALSE, "OTHER", 0), "OTHER"))
  ELSE IF ~v.exists
  THEN MoveResult(FALSE, "NOT_FOUND",
         Solo_finish(r, createSoloMove(r.currentTurn, CanonicalArtist(artistName, NO_MBID),
                                       FALSE, "NOT_FOUND", 0), "INVALID_FEAT"))
  ELSE IF Solo_isArtistUsed(r, v.canonical)
  THEN MoveResult(FALSE, "REPEAT",
         Solo_finish(r, createSoloMove(r.currentTurn, v.canonical, FALSE, "REPEAT", 0), "REPEAT"))
  ELSE IF ~v.validRelation
  THEN MoveResult(FALSE, "INVALID_FEAT",
         Solo_finish(r, createSoloMove(r.currentTurn, v.canonical, FALSE, "INVALID_FEAT", 0),
                     "INVALID_FEAT"))
  ELSE LET finalScore == calculateScore(stats, r.currentTurn, timeSpentSeconds)
       IN MoveResult(TRUE, "NONE",
            [r EXCEPT !.currentArtist = v.canonical,
                      !.usedArtists = Append(r.usedArtists, getCanonicalId(v.canonical)),
                      !.moves = Append(r.moves,
                                  createSoloMove(r.currentTurn, v.canonical, TRUE, "NONE", finalScore)),
                      !.totalScore = r.totalScore + finalScore,
                      !.currentTurn = r.currentTurn + 1,
                      !.currentTurnEndsAt = t + TURN_DURATION_MS])

\* One run is followed from its creation on.  The seed is resolved to its
\* catalogue entry, or kept by name when the resolution finds nothing.
StartRun(seedArtist) ==
  /\ game.status = ABSENT /\ run.status = ABSENT
  /\ LET created == [createSoloRun(seedArtist) EXCEPT !.currentTurnEndsAt = now + TURN_DURATION_MS]
         scheduled == Solo_scheduleTurnTimer(created, now)
     IN /\ run' = scheduled.run
        /\ runTimer' = scheduled.timer
  /\ lastResult' = NoResult
  /\ UNCHANGED <<now, game, gameTimer, inflight, idsIssued, proposals, runLock, runInflight>>
  /\ UNCHANGED <<valVars, scoreVars>>

SoloCall(artistName, r, timeSpentSeconds) ==
  [artistName |-> artistName, run |-> r, timeSpentSeconds |-> timeSpentSeconds]

MakeMoveBegin(artistName) ==
  /\ run.status # ABSENT
  /\ LET g == makeMoveGuards(run, runLock, runTimer, now)
         turnStartTime == run.currentTurnEndsAt - TURN_DURATION_MS
     IN IF g.result.reason = "AWAIT"
        THEN /\ runLock' = TRUE
             /\ runInflight' = runInflight \cup {SoloCall(artistName, run, (now - turnStartTime) \div 1000)}
             /\ lastResult' = NoResult
             /\ UNCHANGED <<run, runTimer>>
        ELSE /\ run' = g.result.run
             /\ runTimer' = g.timer
             /\ lastResult' = Result("makeMove", g.result.isValid, g.result.reason)
             /\ UNCHANGED <<runLock, runInflight>>
  /\ UNCHANGED <<now, game, gameTimer, inflight, idsIssued, proposals>>
  /\ UNCHANGED <<valVars, scoreVars>>

\* Every exit after the await deletes the lock, stores the run it built and
\* either cancels the timer (run finished) or schedules the next one.
MakeMoveComplete(c, v, stats) ==
  /\ c \in runInflight
  /\ v \in validateMove(c.run.currentArtist, c.artistName)
  /\ stats \in ProviderAnswers(c.run.currentArtist.mbid, v.canonical.mbid)
  /\ LET r == makeMoveSettle(c.run, c.artistName, v, stats, c.timeSpentSeconds, now)
         scheduled == Solo_scheduleTurnTimer(r.run, now)
     IN /\ run' = scheduled.run
        /\ runTimer' = scheduled.timer
        /\ lastResult' = Result("makeMove", r.isValid, r.reason)
  /\ runLock' = FALSE
  /\ runInflight' = runInflight \ {c}
  /\ UNCHANGED <<now, game, gameTimer, inflight, idsIssued, proposals>>
  /\ UNCHANGED <<valVars, scoreVars>>

SoloTimerFire ==
  /\ runTimer.set /\ runTimer.live
  /\ now >= runTimer.at
  /\ LET fired == Solo_handleTurnTimeout(run, [runTimer EXCEPT !.live = FALSE])
     IN /\ run' = fired.run
        /\ runTimer' = fired.timer
  /\ lastResult' = NoResult
  /\ UNCHANGED <<now, game, gameTimer, inflight, idsIssued, proposals, runLock, runInflight>>
  /\ UNCHANGED <<valVars, scoreVars>>

\* ---- The validation layer in detail ------------------------------------
\* ValidationService.validateMove, MusicBrainzService and WikidataService,
\* followed from one await to the next.  A name is the number of the artist
\* it denotes; the names handed to WikidataService are canonical names, whose
\* spelling does not vary.
MAX_RETRIES == 3          \* retry(fn, maxRetries = 3, delay)
SEARCH_STRATEGIES == 3    \* the queries resolveArtist tries in turn

\* What one attempt of a request does: it answers, fails with a network
\* error (ECONNRESET, ETIMEDOUT, ENOTFOUND, timeout), or fails otherwise.
AttemptOutcomes == {"ok", "network", "error"}

\* retry: the first answer is returned; a network error is retried while
\* attempts remain; any other error, and the last network error, is thrown.
\* Faulty variant: any error is retried while attempts remain.
retryAgain_AnyError(outcome, attempt) == attempt < MAX_RETRIES

\* `isNetworkError && attempt < maxRetries`: the catch block goes on to the
\* next attempt.
retryAgain(outcome, attempt) == outcome = "network" /\ attempt < MAX_RETRIES

RECURSIVE retryFrom(_, _)
retryFrom(attempts, attempt) ==
  IF attempt > MAX_RETRIES THEN "null"
  ELSE IF attempts[attempt] = "ok" THEN "ok"
  ELSE IF retryAgain(attempts[attempt], attempt)
  THEN retryFrom(attempts, attempt + 1)
  ELSE "throw"

retry(attempts) == retryFrom(attempts, 1)

\* What a retried request can come to.
RetryOutcomes == {retry(attempts) : attempts \in [1..MAX_RETRIES -> AttemptOutcomes]}

\* The loop of retry, one iteration at a time.  answers is what the wrapped
\* request does each time it is sent, one answer more than retry can ask for;
\* made counts the requests sent and attempt is the loop variable.
MaxAnswers == MAX_RETRIES + 1
RetryIdle == [status |-> "idle", answers |-> <<>>, attempt |-> 0, made |-> 0]

RetryBegin(answers) ==
  /\ retrying.status = "idle"
  /\ validations = <<>>
  /\ retrying' = [status |-> "running", answers |-> answers, attempt |-> 1, made |-> 0]
  /\ UNCHANGED <<validations, collaborationCache, artistQidCache, engineVars, scoreVars>>

RetryAttempt ==
  /\ retrying.status = "running"
  /\ retrying' =
       IF retrying.attempt > MAX_RETRIES
       THEN [retrying EXCEPT !.status = "null"]
       ELSE LET outcome == retrying.answers[retrying.attempt]
                sent == [retrying EXCEPT !.made = @ + 1]
            IN  IF outcome = "ok" THEN [sent EXCEPT !.status = "ok"]
                ELSE IF retryAgain(outcome, retrying.attempt)
                THEN [sent EXCEPT !.attempt = @ + 1]
                ELSE [sent EXCEPT !.status = "throw"]
  /\ UNCHANGED <<validations, collaborationCache, artistQidCache, engineVars, scoreVars>>

\* getCacheKey: the two names in alphabetical order.
getCacheKey(artist1, artist2) ==
  IF artist1 < artist2 THEN <<artist1, artist2>> ELSE <<artist2, artist1>>

PairKeys == {getCacheKey(a, b) : a \in ArtistNames, b \in ArtistNames}

\* The previous artists validateMove is called with: none, a resolved artist,
\* or a name without MBID (lastArtistName fallback, seed without MBID).
PreviousArtists ==
  {NO_ARTIST} \cup {CanonicalArtist(a, a) : a \in Artists}
              \cup {CanonicalArtist(a, NO_MBID) : a \in Artists}

\* A validateMove call: its arguments, the await it stands at, its locals,
\* the service methods it has invoked (queried) with their answers, the kinds
\* of external request sent on its behalf (external), the collaborators
\* fetched for the candidate, whether its relation
\* answer came out of a catch block or a failed QID lookup (errorPath), and
\* whether a confirmed result for its pair existed when it started.
NewValidation(previousArtist, proposedArtistName, afterConfirmed) ==
  [previousArtist |-> previousArtist, name |-> proposedArtistName,
   pc |-> "resolve", strategy |-> 1, canonical |-> NO_ARTIST,
   validRelation |-> FALSE, source |-> "none",
   queried |-> {}, mbAnswer |-> "none", wdAnswer |-> "none",
   external |-> {"resolve"}, errorPath |-> FALSE, cacheHit |-> FALSE,
   prevQid |-> "absent", currQid |-> "absent", collaborators |-> {},
   afterConfirmed |-> afterConfirmed, result |-> ValidationThrew]

Finish(p, result) == [p EXCEPT !.pc = "done", !.result = result]

BothMbids(p) == p.previousArtist.mbid # NO_MBID /\ p.canonical.mbid # NO_MBID

Str(b) == IF b THEN "true" ELSE "false"

ValState(p, cache, qids) == [p |-> p, cache |-> cache, qids |-> qids]

\* validateMove after the relation is confirmed (step 5): the collaborators
\* are fetched only when both artists carry an MBID.
afterConfirmedRelation(p) ==
  IF BothMbids(p)
  THEN [p EXCEPT !.pc = "mbCollaborators", !.external = @ \cup {"mbCollaborators"}]
  ELSE Finish(p, ValidationResult(TRUE, TRUE, p.canonical, FALSE))

\* validateMove after wikidataService.haveCommonRecording has answered.  The
\* QID lookup that follows a positive answer finds the name in the cache.
afterWikidata(p, answer) ==
  LET q == [p EXCEPT !.wdAnswer = Str(answer)]
  IN IF answer
     THEN afterConfirmedRelation([q EXCEPT !.validRelation = TRUE,
                                           !.source = "wikidata_fallback"])
     ELSE Finish(q, ValidationResult(TRUE, FALSE, q.canonical, FALSE))

\* wikidataService.haveCommonRecording up to its first await: a cached
\* answer is returned; otherwise both QID lookups start, each one reading
\* the QID cache at once.
Wikidata_haveCommonRecording(p, cache, qids) ==
  LET cacheKey == getCacheKey(p.previousArtist.name, p.canonical.name)
      q == [p EXCEPT !.queried = @ \cup {"wikidata"}]
  IN IF cache[cacheKey] # "absent"
     THEN ValState(afterWikidata([q EXCEPT !.cacheHit = TRUE], cache[cacheKey] = "true"),
                   cache, qids)
     ELSE ValState([q EXCEPT !.pc = "wdQids",
                             !.prevQid = qids[p.previousArtist.name],
                             !.currQid = qids[p.canonical.name],
                             !.external = @ \cup (IF qids[p.previousArtist.name] = "absent"
                                                     \/ qids[p.canonical.name] = "absent"
                                                  THEN {"wdQid"} ELSE {})],
                   cache, qids)

\* Faulty variant: the primary source is asked whether or not both artists
\* carry an MBID.
afterResolve_NoMbidCheck(p, cache, qids) ==
  IF p.previousArtist = NO_ARTIST
  THEN ValState(Finish([p EXCEPT !.validRelation = TRUE, !.source = "musicbrainz"],
                       ValidationResult(TRUE, TRUE, p.canonical, FALSE)),
                cache, qids)
  ELSE ValState([p EXCEPT !.pc = "mbRecording", !.queried = @ \cup {"musicbrainz"},
                          !.external = @ \cup {"mbRecording"}],
                cache, qids)

\* validateMove from the resolution on (steps 2 to 4).
afterResolve(p, cache, qids) ==
  IF p.previousArtist = NO_ARTIST
  THEN ValState(Finish([p EXCEPT !.validRelation = TRUE, !.source = "musicbrainz"],
                       ValidationResult(TRUE, TRUE, p.canonical, FALSE)),
                cache, qids)
  ELSE IF BothMbids(p)
  THEN ValState([p EXCEPT !.pc = "mbRecording", !.queried = @ \cup {"musicbrainz"},
                          !.external = @ \cup {"mbRecording"}],
                cache, qids)
  ELSE Wikidata_haveCommonRecording(p, cache, qids)

\* findArtistQidByName after its requests: a QID or an empty answer is
\* cached, an error is caught and nothing is cached.
QidAnswers == {"qid", "null", "error"}

QidResult(answer) == IF answer = "qid" THEN "qid" ELSE "null"

QidCacheAfter(qids, name, cached, answer) ==
  IF cached # "absent" \/ answer = "error" THEN qids
  ELSE [qids EXCEPT ![name] = QidResult(answer)]

MaxValidations == 2       \* validateMove calls, over one behaviour

Store(id, st) ==
  /\ validations' = [validations EXCEPT ![id] = st.p]
  /\ collaborationCache' = st.cache
  /\ artistQidCache' = st.qids
  /\ UNCHANGED retrying

\* A confirmed result for the pair of p: the validation ended without a
\* throw, found the artist, and its relation answer came through no error path.
Confirmed(p) ==
  /\ p.pc = "done"
  /\ ~p.result.threw
  /\ p.result.exists
  /\ p.previousArtist # NO_ARTIST
  /\ ~p.errorPath

SamePair(p, previousArtist, proposedArtistName) ==
  /\ p.previousArtist # NO_ARTIST
  /\ previousArtist # NO_ARTIST
  /\ getCacheKey(p.previousArtist.name, p.name)
       = getCacheKey(previousArtist.name, proposedArtistName)

\* validateMove is called: the name is trimmed and resolveArtist sends its
\* first query.
ValidateBegin(previousArtist, proposedArtistName) ==
  /\ Len(validations) < MaxValidations
  /\ retrying.status = "idle"
  /\ validations' =
       Append(validations,
              NewValidation(previousArtist, proposedArtistName,
                            \E i \in DOMAIN validations :
                              /\ Confirmed(validations[i])
                              /\ SamePair(validations[i], previousArtist, proposedArtistName)))
  /\ UNCHANGED <<collaborationCache, artistQidCache, retrying, engineVars, scoreVars>>

\* One query of resolveArtist comes back: a throw of retry leaves
\* validateMove; a hit gives the canonical artist (the lookup of the aliases
\* cannot fail the resolution); a miss goes to the next query, and after the
\* last one the artist is not found.
ResolveQuery(id, outcome, found) ==
  /\ validations[id].pc = "resolve"
  /\ LET p == validations[id]
     IN IF outcome = "throw"
        THEN Store(id, ValState(Finish(p, ValidationThrew), collaborationCache, artistQidCache))
        ELSE IF found
        THEN Store(id, afterResolve([p EXCEPT !.canonical = Resolved(p.name)],
                                    collaborationCache, artistQidCache))
        ELSE IF p.strategy < SEARCH_STRATEGIES
        THEN Store(id, ValState([p EXCEPT !.strategy = @ + 1],
                                collaborationCache, artistQidCache))
        ELSE Store(id, ValState(Finish(p, ValidationResult(FALSE, FALSE,
                                          CanonicalArtist(p.name, NO_MBID), FALSE)),
                                collaborationCache, artistQidCache))
  /\ UNCHANGED <<engineVars, scoreVars>>

\* musicBrainzService.haveCommonRecording comes back: an error is caught and
\* reads as no recording; without a recording the fallback is asked.
MbRecording(id, outcome, found) ==
  /\ validations[id].pc = "mbRecording"
  /\ LET mbCollab == outcome = "ok" /\ found
         p == [validations[id] EXCEPT !.mbAnswer = Str(mbCollab)]
     IN IF mbCollab
        THEN Store(id, ValState(afterConfirmedRelation([p EXCEPT !.validRelation = TRUE,
                                                                 !.source = "musicbrainz"]),
                                collaborationCache, artistQidCache))
        ELSE Store(id, Wikidata_haveCommonRecording(p, collaborationCache, artistQidCache))
  /\ UNCHANGED <<engineVars, scoreVars>>

\* Both QID lookups of wikidataService.haveCommonRecording have come back,
\* in either order: without both QIDs the answer false is cached; otherwise
\* the SPARQL query is sent.
WdQids(id, prevAnswer, currAnswer) ==
  /\ validations[id].pc = "wdQids"
  /\ validations[id].prevQid # "absent" => prevAnswer = validations[id].prevQid
  /\ validations[id].currQid # "absent" => currAnswer = validations[id].currQid
  /\ LET p == validations[id]
         prevName == p.previousArtist.name
         currName == p.canonical.name
         cacheKey == getCacheKey(prevName, currName)
         prevFirst == QidCacheAfter(QidCacheAfter(artistQidCache, prevName, p.prevQid, prevAnswer),
                                    currName, p.currQid, currAnswer)
         currFirst == QidCacheAfter(QidCacheAfter(artistQidCache, currName, p.currQid, currAnswer),
                                    prevName, p.prevQid, prevAnswer)
     IN \E qids \in {prevFirst, currFirst} :
          IF QidResult(prevAnswer) = "null" \/ QidResult(currAnswer) = "null"
          THEN Store(id, ValState(afterWikidata([p EXCEPT !.errorPath =
                                                   prevAnswer = "error" \/ currAnswer = "error"],
                                                FALSE),
                                  [collaborationCache EXCEPT ![cacheKey] = "false"], qids))
          ELSE Store(id, ValState([p EXCEPT !.pc = "wdSparql", !.prevQid = "qid",
                                            !.currQid = "qid",
                                            !.external = @ \cup {"wdSparql"}],
                                  collaborationCache, qids))
  /\ UNCHANGED <<engineVars, scoreVars>>

\* The SPARQL query comes back: its answer is cached; an error is caught and
\* the answer false is cached.
WdSparql(id, outcome, found) ==
  /\ validations[id].pc = "wdSparql"
  /\ LET p == validations[id]
         cacheKey == getCacheKey(p.previousArtist.name, p.canonical.name)
         hasCollaboration == outcome = "ok" /\ found
     IN Store(id, ValState(afterWikidata([p EXCEPT !.errorPath = outcome # "ok"],
                                         hasCollaboration),
                           [collaborationCache EXCEPT ![cacheKey] = Str(hasCollaboration)],
                           artistQidCache))
  /\ UNCHANGED <<engineVars, scoreVars>>

\* getKnownCollaborators: the artists credited on the recordings of mbid,
\* mbid itself left out; an error is caught and reads as no collaborator.
getKnownCollaborators(mbid, outcome, credited) ==
  IF outcome = "ok" THEN credited \ {mbid} ELSE {}

\* Faulty variant: one collaborator is enough, whoever it is.
singleCircularCollab_AnyOne(collaborators, previousArtist) ==
  Cardinality(collaborators) = 1

\* validateMove step 5: one known collaborator, and it is the previous artist.
singleCircularCollab(collaborators, previousArtist) ==
  Cardinality(collaborators) = 1 /\ collaborators = {previousArtist.mbid}

\* getKnownCollaborators comes back and validateMove returns with the flag.
MbCollaborators(id, outcome, credited) ==
  /\ validations[id].pc = "mbCollaborators"
  /\ LET collaborators == getKnownCollaborators(validations[id].canonical.mbid, outcome, credited)
         p == [validations[id] EXCEPT !.collaborators = collaborators]
     IN Store(id, ValState(Finish(p, ValidationResult(TRUE, TRUE, p.canonical,
                                    singleCircularCollab(collaborators, p.previousArtist))),
                           collaborationCache, artistQidCache))
  /\ UNCHANGED <<engineVars, scoreVars>>

Init ==
  /\ now = StartMs
  /\ game = NoGame
  /\ gameTimer = NoTimer
  /\ inflight = EmptyBag
  /\ idsIssued = 0
  /\ proposals = 0
  /\ run = NoRun
  /\ runTimer = NoTimer
  /\ runLock = FALSE
  /\ runInflight = {}
  /\ lastResult = NoResult
  /\ validations = <<>>
  /\ collaborationCache = [key \in PairKeys |-> "absent"]
  /\ artistQidCache = [name \in ArtistNames |-> "absent"]
  /\ retrying = RetryIdle
  /\ providerCache = EmptyCaches
  /\ scored = NoScore

Next ==
  \/ CreateGame
  \/ \E playerName \in JoinNames : JoinGame(playerName)
  \/ \E playerId \in PlayerIds(game.players) : StartGame(playerId)
  \/ \E playerId \in PlayerIds(game.players) : ResetGame(playerId)
  \/ \E playerId \in PlayerIds(game.players), artistName \in ArtistNames :
       ProposeBegin(playerId, artistName)
  \/ \E c \in BagToSet(inflight) :
       \E v \in validateMove(c.game.lastArtist, c.artistName) : ProposeComplete(c, v)
  \/ TimerFire
  \/ \E seedName \in Artists :
       \E seedMbid \in {NO_MBID, seedName} : StartRun(CanonicalArtist(seedName, seedMbid))
  \/ \E artistName \in ArtistNames : MakeMoveBegin(artistName)
  \/ \E c \in runInflight :
       \E v \in validateMove(c.run.currentArtist, c.artistName) :
         \E stats \in ProviderAnswers(c.run.currentArtist.mbid, v.canonical.mbid) :
           MakeMoveComplete(c, v, stats)
  \/ SoloTimerFire
  \/ Tick

Spec == Init /\ [][Next]_vars

\* The validation layer on its own: validateMove calls overlap freely and
\* the external sources answer as they like.
ValNext ==
  \/ \E previousArtist \in PreviousArtists : \E proposedArtistName \in ArtistNames :
       ValidateBegin(previousArtist, proposedArtistName)
  \/ \E id \in DOMAIN validations : \E outcome \in RetryOutcomes : \E found \in BOOLEAN :
       ResolveQuery(id, outcome, found)
  \/ \E id \in DOMAIN validations : \E outcome \in RetryOutcomes : \E found \in BOOLEAN :
       MbRecording(id, outcome, found)
  \/ \E id \in DOMAIN validations : \E prevAnswer \in QidAnswers : \E currAnswer \in QidAnswers :
       WdQids(id, prevAnswer, currAnswer)
  \/ \E id \in DOMAIN validations : \E outcome \in RetryOutcomes : \E found \in BOOLEAN :
       WdSparql(id, outcome, found)
  \/ \E id \in DOMAIN validations : \E outcome \in RetryOutcomes : \E credited \in SUBSET Artists :
       MbCollaborators(id, outcome, credited)
  \/ \E answers \in [1..MaxAnswers -> AttemptOutcomes] : RetryBegin(answers)
  \/ RetryAttempt

ValSpec == Init /\ [][ValNext]_vars

\* The engine with joins that may fall into the millisecond of the creation
\* before them.
SameMsNext ==
  \/ Next
  \/ \E playerName \in JoinNames : JoinGameAnyTime(playerName)

SameMsSpec == Init /\ [][SameMsNext]_vars

\* The scoring on its own: an offline job fills the provider caches, then
\* calculateScore is called with any arguments.
PREVIOUS_MBID == 1
CANDIDATE_MBID == 2
ScoreNext ==
  \/ \E count \in PairCounts : setPairFamilyCount(count)
  \/ \E degree \in Degrees : setDegree(degree)
  \/ \E category \in Categories : setCategory(category)
  \/ clearCache
  \/ \E previousArtistMbid \in {NO_MBID, PREVIOUS_MBID} :
     \E currentArtistMbid \in {NO_MBID, CANDIDATE_MBID} :
     \E turnNumber \in TurnNumbers : \E timeSpentSeconds \in Seconds :
       Score(previousArtistMbid, currentArtistMbid, turnNumber, timeSpentSeconds)
  \/ ScoreReturned

ScoreSpec == Init /\ [][ScoreNext]_vars

\* The timer callbacks run when due and the clock advances: the scheduling
\* the turn timers rely on.  Submits are under no fairness: nobody has to play.
FairSpec == Spec /\ WF_vars(TimerFire) /\ WF_vars(Tick)

\* ---- properties --------------------------------------------------------
IsPrefix(s, t) == Len(s) <= Len(t) /\ SubSeq(t, 1, Len(s)) = s

InflightCalls == BagToSet(inflight)

\* The dedup key of a resolved candidate is one of the keys in usedArtists.
KeyUsed(usedArtists, canonical) ==
  (IF canonical.mbid # NO_MBID THEN canonical.mbid ELSE 0 - canonical.name)
    \in {usedArtists[i] : i \in DOMAIN usedArtists}

IsEliminated(g, playerId) ==
  \E i \in DOMAIN g.players : g.players[i].id = playerId /\ g.players[i].isEliminated

\* The next non-eliminated participant after index, in round-robin order.
NextInRoundRobin(players, index) ==
  LET n == Len(players)
      offsets == {k \in 1..n : ~players[((index + k) % n) + 1].isEliminated}
  IN (index + (CHOOSE k \in offsets : \A j \in offsets : k <= j)) % n

\* The step eliminates the participant who holds the turn in a running game.
HolderEliminatedByStep ==
  /\ game.status = IN_PROGRESS
  /\ Len(game'.players) = Len(game.players)
  /\ ~game.players[game.currentPlayerIndex + 1].isEliminated
  /\ game'.players[game.currentPlayerIndex + 1].isEliminated

\* C1: in a Game, every step (a submit or a timer callback) that eliminates
\* the current holder while at least two participants remain leaves
\* currentPlayerIndex on the next non-eliminated participant in round-robin
\* order, with a fresh turn: deadline = now + 30 s and attemptsUsed = 0.
C1_EliminationOpensNextTurn ==
  [][(HolderEliminatedByStep /\ Cardinality(ActivePlayers(game'.players)) >= 2)
       => /\ game'.currentPlayerIndex = NextInRoundRobin(game'.players, game.currentPlayerIndex)
          /\ game'.currentTurnEndsAt = now + TURN_DURATION_MS
          /\ game'.attemptsUsed = 0]_vars

\* The timer callback has eliminated the holder of the turn the suspended
\* proposeArtist call c belongs to.
GameTimeoutAppliedSince(c) ==
  LET k == Len(c.game.turns) + 1
  IN /\ Len(game.turns) >= k
     /\ SubSeq(game.turns, 1, k - 1) = c.game.turns
     /\ game.turns[k] = createTurn(c.playerId, EMPTY_NAME, FALSE, c.game.attemptsUsed, "TIMEOUT")

\* The timer callback has ended the run while the makeMove call c was suspended.
RunTimeoutAppliedSince(c) ==
  /\ run.status = FINISHED
  /\ run.endReason = "TIMEOUT"
  /\ Len(run.moves) = Len(c.run.moves) + 1

\* C2: for a Game or a Run, when the timer and a submit awaiting validation
\* race, the one that completes second is a no-op: a submit completing after
\* the timeout was applied leaves the stored entity as it is, and a timer
\* callback running after a submit closed the turn it targets (the current
\* deadline not being due) leaves it as it is.
C2_RaceLoserIsNoOp ==
  [][/\ \A c \in InflightCalls : \A v \in validateMove(c.game.lastArtist, c.artistName) :
          (ProposeComplete(c, v) /\ GameTimeoutAppliedSince(c)) => game' = game
     /\ \A c \in runInflight : \A v \in validateMove(c.run.currentArtist, c.artistName) :
          \A stats \in ProviderAnswers(c.run.currentArtist.mbid, v.canonical.mbid) :
            (MakeMoveComplete(c, v, stats) /\ RunTimeoutAppliedSince(c)) => run' = run
     /\ (TimerFire /\ gameTimer.at # game.currentTurnEndsAt /\ now < game.currentTurnEndsAt)
          => game' = game
     /\ (SoloTimerFire /\ runTimer.at # run.currentTurnEndsAt /\ now < run.currentTurnEndsAt)
          => run' = run]_vars

\* C3: a FINISHED Game stays FINISHED under every step except resetGame, and
\* a FINISHED Run stays FINISHED under every step.
C3_FinishedIsTerminal ==
  [][/\ game.status = FINISHED
          => (game'.status = FINISHED
              \/ \E playerId \in PlayerIds(game.players) : ResetGame(playerId))
     /\ run.status = FINISHED => run'.status = FINISHED]_vars

\* C4: whenever a Game is IN_PROGRESS, one turn timer is pending for it and it
\* is set to fire at the game's currentTurnEndsAt.
C4_TimerTracksDeadline ==
  game.status = IN_PROGRESS
    => (gameTimer.set /\ gameTimer.live /\ gameTimer.at = game.currentTurnEndsAt)

\* A proposeArtist call begins, returns or completes.
GameSubmitStep == inflight' # inflight \/ lastResult'.op = "proposeArtist"

\* The open turn's timer is pending but due after the last instant explored.
BeyondHorizon == gameTimer.set /\ gameTimer.live /\ gameTimer.at > MaxTime

\* C5: in a Game, if from some point on nobody submits anything and the
\* timers fire, a running game eventually reaches FINISHED (each idle holder
\* being eliminated in turn), whatever opened the current turn.
C5_IdleGameFinishes ==
  ([]<><<GameSubmitStep>>_vars)
  \/ [](game.status = IN_PROGRESS => <>(game.status = FINISHED \/ BeyondHorizon))

\* C6: for a Run, the lock is held exactly while a makeMove awaits validation
\* and at most one does; a makeMove arriving meanwhile returns isValid = false
\* with reason OTHER and leaves the run and the call in flight untouched; no
\* two accepted moves carry the same turn number; every completion releases
\* the lock.
C6_RunSingleFlight ==
  [][/\ runLock' <=> (runInflight' # {})
     /\ Cardinality(runInflight') <= 1
     /\ (runLock /\ lastResult'.op = "makeMove" /\ runInflight' = runInflight)
          => (lastResult' = Result("makeMove", FALSE, "OTHER") /\ run' = run)
     /\ (runInflight' # runInflight /\ runInflight' = {}) => ~runLock'
     /\ \A i, j \in DOMAIN run'.moves :
          (run'.moves[i].isValid /\ run'.moves[j].isValid
             /\ run'.moves[i].turn = run'.moves[j].turn) => i = j]_vars

\* C6 witness: a second makeMove was refused by the lock while the first is
\* still awaiting validation.
C6_Witness ==
  /\ run.status = IN_PROGRESS
  /\ runLock
  /\ runInflight # {}
  /\ lastResult = Result("makeMove", FALSE, "OTHER")

\* Another proposeArtist call of the same holder, made on the same turn as
\* the suspended call c, has completed and its record is in the stored history.
OverlappedBySubmit(c) ==
  LET k == Len(c.game.turns) + 1
  IN /\ Len(game.turns) >= k
     /\ SubSeq(game.turns, 1, k - 1) = c.game.turns
     /\ game.turns[k].playerId = c.playerId
     /\ game.turns[k].artistName # EMPTY_NAME

\* C7: in a Game, of two overlapping proposeArtist calls of the holder on the
\* same turn at most one is accepted, and when the second completes the stored
\* game keeps what the first one recorded.
C7_NoDoubleAccept ==
  [][\A c \in InflightCalls : \A v \in validateMove(c.game.lastArtist, c.artistName) :
       (ProposeComplete(c, v) /\ ~v.threw /\ OverlappedBySubmit(c))
         => /\ ~(lastResult'.isValid /\ game.turns[Len(c.game.turns) + 1].isValid)
            /\ IsPrefix(game.turns, game'.turns)]_vars

\* A started game is FINISHED exactly when at most one participant is left.
FinishedIffOneLeft(g) ==
  g.status \in {IN_PROGRESS, FINISHED}
    => (g.status = FINISHED <=> Cardinality(ActivePlayers(g.players)) <= 1)

\* Participants [A, B], A has played X as a valid first move, B proposes X.
ScenarioAB(c) ==
  /\ Len(c.game.players) = 2
  /\ c.playerId = c.game.players[2].id
  /\ c.game.turns = <<createTurn(c.game.players[1].id, c.artistName, TRUE, 1, "NONE")>>

C9_RepeatEliminates ==
  [][/\ \A c \in InflightCalls : \A v \in validateMove(c.game.lastArtist, c.artistName) :
          (ProposeComplete(c, v) /\ v.exists /\ KeyUsed(c.game.usedArtists, v.canonical))
            => /\ lastResult' = Result("proposeArtist", FALSE, "REPEAT")
               /\ IsEliminated(game', c.playerId)
               /\ game'.attemptsUsed = c.game.attemptsUsed
               /\ game'.turns[Len(game'.turns)].invalidReason = "REPEAT"
     /\ \A c \in runInflight : \A v \in validateMove(c.run.currentArtist, c.artistName) :
          \A stats \in ProviderAnswers(c.run.currentArtist.mbid, v.canonical.mbid) :
            (MakeMoveComplete(c, v, stats) /\ v.exists /\ KeyUsed(c.run.usedArtists, v.canonical))
              => /\ lastResult' = Result("makeMove", FALSE, "REPEAT")
                 /\ run'.status = FINISHED
                 /\ run'.endReason = "REPEAT"]_vars

\* C9 witness: a holder who had already used one attempt of the turn was
\* eliminated with REPEAT, attemptsUsed staying at 1.
C9_Witness ==
  /\ lastResult = Result("proposeArtist", FALSE, "REPEAT")
  /\ game.attemptsUsed = 1
  /\ Len(game.turns) >= 3
  /\ game.turns[Len(game.turns)].invalidReason = "REPEAT"
  /\ game.turns[Len(game.turns)].attemptNumber = 2
  /\ IsEliminated(game, game.turns[Len(game.turns)].playerId)

SoftReasons == {"NOT_FOUND", "NO_RELATION", "SINGLE_CIRCULAR"}

\* C10: in a Game, a submit made with no attempt used and rejected with
\* NOT_FOUND, NO_RELATION or SINGLE_CIRCULAR stores the game it was made on
\* with attemptsUsed = 1 and one more record (rejected, attemptNumber 1),
\* everything else as it was; made with one attempt used, it eliminates the
\* holder with that reason (record with attemptNumber 2).
C10_SoftRejection ==
  [][\A c \in InflightCalls : \A v \in validateMove(c.game.lastArtist, c.artistName) :
       (ProposeComplete(c, v) /\ lastResult'.reason \in SoftReasons)
         => LET record == createTurn(c.playerId, c.artistName, FALSE,
                                     c.game.attemptsUsed + 1, lastResult'.reason)
            IN IF c.game.attemptsUsed = 0
               THEN game' = [c.game EXCEPT !.attemptsUsed = 1,
                                           !.turns = Append(c.game.turns, record)]
               ELSE /\ c.game.attemptsUsed = 1
                    /\ IsEliminated(game', c.playerId)
                    /\ game'.turns = Append(c.game.turns, record)
                    /\ ~lastResult'.isValid]_vars

\* C10 witness: the holder was eliminated by the second soft rejection of a
\* turn, the first one being on record just before.
C10_Witness ==
  /\ lastResult.reason \in SoftReasons
  /\ Len(game.turns) >= 2
  /\ LET n == Len(game.turns)
     IN /\ game.turns[n].attemptNumber = 2
        /\ game.turns[n].invalidReason = lastResult.reason
        /\ game.turns[n - 1].attemptNumber = 1
        /\ game.turns[n - 1].invalidReason \in SoftReasons
        /\ game.turns[n - 1].playerId = game.turns[n].playerId
        /\ IsEliminated(game, game.turns[n].playerId)

\* The turn deadline of entity e (a game or a run) has been reached.
Due(e) == e.currentTurnEndsAt # UNDEFINED_AT /\ now >= e.currentTurnEndsAt

\* playerId holds the turn of the running game and is not eliminated.
HoldsTurn(g, playerId) ==
  /\ g.status = IN_PROGRESS
  /\ g.players[g.currentPlayerIndex + 1].id = playerId
  /\ ~g.players[g.currentPlayerIndex + 1].isEliminated

\* g2 is g after playerId was eliminated with TIMEOUT: one TIMEOUT record
\* more, attemptsUsed not raised, lastArtist and usedArtists as they were.
TimeoutFrame(g, g2, playerId) ==
  /\ IsEliminated(g2, playerId)
  /\ Len(g2.turns) = Len(g.turns) + 1
  /\ SubSeq(g2.turns, 1, Len(g.turns)) = g.turns
  /\ g2.turns[Len(g2.turns)].playerId = playerId
  /\ g2.turns[Len(g2.turns)].invalidReason = "TIMEOUT"
  /\ ~g2.turns[Len(g2.turns)].isValid
  /\ g2.attemptsUsed <= g.attemptsUsed
  /\ g2.lastArtist = g.lastArtist
  /\ g2.usedArtists = g.usedArtists

RunTimeoutFrame(r, r2) ==
  /\ r2.status = FINISHED
  /\ r2.endReason = "TIMEOUT"
  /\ Len(r2.moves) = Len(r.moves) + 1
  /\ r2.moves[Len(r2.moves)].invalidReason = "TIMEOUT"
  /\ r2.currentArtist = r.currentArtist
  /\ r2.usedArtists = r.usedArtists
  /\ r2.totalScore = r.totalScore

\* C11: the holder's submit made at or after the deadline, and the timer
\* callback of a due turn, eliminate the holder with reason TIMEOUT (a Run is
\* finished with TIMEOUT) without any validation being started, without raising
\* attemptsUsed and with lastArtist / currentArtist and usedArtists unchanged.
C11_TimeoutSkipsValidation ==
  [][/\ \A playerId \in PlayerIds(game.players) : \A artistName \in ArtistNames :
          (ProposeBegin(playerId, artistName) /\ HoldsTurn(game, playerId) /\ Due(game))
            => /\ lastResult' = Result("proposeArtist", FALSE, "TIMEOUT")
               /\ TimeoutFrame(game, game', playerId)
               /\ inflight' = inflight /\ proposals' = proposals
     /\ \A playerId \in PlayerIds(game.players) :
          (TimerFire /\ HoldsTurn(game, playerId) /\ Due(game))
            => /\ TimeoutFrame(game, game', playerId)
               /\ inflight' = inflight /\ proposals' = proposals
     /\ \A artistName \in ArtistNames :
          (MakeMoveBegin(artistName) /\ run.status = IN_PROGRESS /\ ~runLock /\ Due(run))
            => /\ lastResult' = Result("makeMove", FALSE, "TIMEOUT")
               /\ RunTimeoutFrame(run, run')
               /\ runInflight' = runInflight
     /\ (SoloTimerFire /\ run.status = IN_PROGRESS)
          => (RunTimeoutFrame(run, run') /\ runInflight' = runInflight)]_vars

\* C11 witness: a holder who had used one attempt submitted after the
\* deadline and was eliminated with TIMEOUT, attemptsUsed still 1.
C11_Witness ==
  /\ lastResult = Result("proposeArtist", FALSE, "TIMEOUT")
  /\ game.attemptsUsed = 1
  /\ Len(game.turns) >= 2
  /\ game.turns[Len(game.turns)].invalidReason = "TIMEOUT"
  /\ game.turns[Len(game.turns)].artistName # EMPTY_NAME
  /\ IsEliminated(game, game.turns[Len(game.turns)].playerId)

\* The run r has no rejected move on record for its current turn.
FirstAttemptOfTurn(r) ==
  \A i \in DOMAIN r.moves : r.moves[i].turn = r.currentTurn => r.moves[i].isValid

\* C12: in a Run, a rejection NOT_FOUND or NO_RELATION (INVALID_FEAT) of the
\* first attempt of a turn leaves the run IN_PROGRESS with the same deadline.
C12_RunFirstRejectionKeepsRun ==
  [][\A c \in runInflight : \A v \in validateMove(c.run.currentArtist, c.artistName) :
       \A stats \in ProviderAnswers(c.run.currentArtist.mbid, v.canonical.mbid) :
         (MakeMoveComplete(c, v, stats) /\ FirstAttemptOfTurn(c.run) /\ ~v.threw
            /\ (~v.exists \/ (~v.validRelation /\ ~KeyUsed(c.run.usedArtists, v.canonical))))
           => /\ run'.status = IN_PROGRESS
              /\ run'.currentTurnEndsAt = c.run.currentTurnEndsAt]_vars

\* C13: in a Game, a candidate that resolves, is not a repeat, has a relation
\* and is flagged single-circular is rejected with reason SINGLE_CIRCULAR,
\* lastArtist and usedArtists staying those of the game the submit was made
\* on; on attempt 1 the holder stays in (attemptsUsed = 1), on attempt 2 the
\* holder is eliminated.
C13_SingleCircularRejected ==
  [][\A c \in InflightCalls : \A v \in validateMove(c.game.lastArtist, c.artistName) :
       (ProposeComplete(c, v) /\ v.exists /\ v.validRelation /\ v.singleCircularCollab
          /\ ~KeyUsed(c.game.usedArtists, v.canonical))
         => /\ lastResult' = Result("proposeArtist", FALSE, "SINGLE_CIRCULAR")
            /\ game'.lastArtist = c.game.lastArtist
            /\ game'.usedArtists = c.game.usedArtists
            /\ game'.turns[Len(game'.turns)].invalidReason = "SINGLE_CIRCULAR"
            /\ c.game.attemptsUsed = 0
                 => (~IsEliminated(game', c.playerId) /\ game'.attemptsUsed = 1)
            /\ c.game.attemptsUsed = 1 => IsEliminated(game', c.playerId)]_vars

\* C13 witness: a holder was rejected SINGLE_CIRCULAR twice in a turn and
\* eliminated, the accepted artist and the used keys still those of before.
C13_Witness ==
  /\ lastResult = Result("proposeArtist", FALSE, "SINGLE_CIRCULAR")
  /\ Len(game.turns) >= 3
  /\ LET n == Len(game.turns)
     IN /\ game.turns[n].invalidReason = "SINGLE_CIRCULAR"
        /\ game.turns[n].attemptNumber = 2
        /\ game.turns[n - 1].invalidReason = "SINGLE_CIRCULAR"
        /\ game.turns[n - 1].attemptNumber = 1
        /\ IsEliminated(game, game.turns[n].playerId)
  /\ game.lastArtist # NO_ARTIST
  /\ Len(game.usedArtists) = 1

\* C14: in a Run, a candidate flagged single-circular by the validation is
\* not accepted: currentArtist, usedArtists, totalScore and currentTurn are
\* those of the run the submit was made on.
C14_RunSingleCircularRejected ==
  [][\A c \in runInflight : \A v \in validateMove(c.run.currentArtist, c.artistName) :
       \A stats \in ProviderAnswers(c.run.currentArtist.mbid, v.canonical.mbid) :
         (MakeMoveComplete(c, v, stats) /\ v.singleCircularCollab)
           => /\ ~lastResult'.isValid
              /\ run'.currentArtist = c.run.currentArtist
              /\ run'.usedArtists = c.run.usedArtists
              /\ run'.totalScore = c.run.totalScore
              /\ run'.currentTurn = c.run.currentTurn]_vars

\* No move has been accepted in the history of g.
NoAcceptedYet(g) == \A i \in DOMAIN g.turns : ~g.turns[i].isValid

\* C15: in a Game where no move has been accepted yet, the holder's submit
\* of a name that resolves is accepted, the validation answering without a
\* relation query and without a single-circular flag.
C15_FirstMoveAccepted ==
  [][\A c \in InflightCalls : \A v \in validateMove(c.game.lastArtist, c.artistName) :
       (ProposeComplete(c, v) /\ NoAcceptedYet(c.game) /\ v.exists)
         => /\ v.validRelation /\ ~v.singleCircularCollab
            /\ lastResult' = Result("proposeArtist", TRUE, "NONE")
            /\ game'.lastArtist = v.canonical
            /\ game'.turns[Len(game'.turns)].isValid]_vars

\* C15 witness: the first accepted move of a game came after a rejected
\* record (a retry, or the turn of the next holder after a timeout).
C15_Witness ==
  /\ lastResult = Result("proposeArtist", TRUE, "NONE")
  /\ Len(game.turns) = 2
  /\ ~game.turns[1].isValid
  /\ game.turns[2].isValid
  /\ Len(game.usedArtists) = 1

\* C16: a submit on a Game that is not IN_PROGRESS, or from a participant
\* who is not the current holder, or from a current holder who is eliminated,
\* returns a rejection (reason OTHER) and leaves the stored game, its timer and
\* the calls in flight as they are.
C16_RefusedSubmitChangesNothing ==
  [][\A playerId \in PlayerIds(game.players) : \A artistName \in ArtistNames :
       (ProposeBegin(playerId, artistName) /\ ~HoldsTurn(game, playerId))
         => /\ lastResult' = Result("proposeArtist", FALSE, "OTHER")
            /\ game' = game
            /\ gameTimer' = gameTimer
            /\ inflight' = inflight /\ proposals' = proposals]_vars

\* C16 witness: a participant who does not hold the turn of a running game
\* has just been refused, and the history is still empty.
C16_Witness ==
  /\ lastResult = Result("proposeArtist", FALSE, "OTHER")
  /\ game.status = IN_PROGRESS
  /\ ~game.players[game.currentPlayerIndex + 1].isEliminated
  /\ game.turns = <<>>

\* The dedup key of a canonical artist.
KeyOf(canonical) == IF canonical.mbid # NO_MBID THEN canonical.mbid ELSE 0 - canonical.name

\* The dedup keys of the accepted records of a game history, in order; a
\* record carries the submitted name, which resolves to the artist so named.
GameAcceptedKeys(turns) ==
  LET accepted == SelectSeq(turns, LAMBDA turn : turn.isValid)
  IN [i \in DOMAIN accepted |-> KeyOf(Resolved(accepted[i].artistName))]

RunAcceptedKeys(moves) ==
  LET accepted == SelectSeq(moves, LAMBDA move : move.isValid)
  IN [i \in DOMAIN accepted |-> KeyOf(accepted[i].artist)]

NoDuplicate(keys) == \A i, j \in DOMAIN keys : keys[i] = keys[j] => i = j

\* C17: in every state, the usedArtists of the stored Game are the dedup keys
\* of the accepted records of its history, and those of the stored Run are
\* the seed's key followed by the keys of its accepted moves; no key is there
\* twice.
C17_UsedArtistsAreAcceptedKeys ==
  /\ game.usedArtists = GameAcceptedKeys(game.turns)
  /\ NoDuplicate(game.usedArtists)
  /\ run.status # ABSENT
       => /\ run.usedArtists = <<KeyOf(run.seedArtist)>> \o RunAcceptedKeys(run.moves)
          /\ NoDuplicate(run.usedArtists)

\* C17 witness: a game with two accepted moves and rejected records beside
\* them.
C17_Witness ==
  /\ Len(game.usedArtists) = 2
  /\ Len(game.turns) >= 3

\* A step that takes a suspended proposeArtist call to its end.
CompletionStep == BagCardinality(inflight') < BagCardinality(inflight)

\* A step that opens a new turn or resets the game.
OpensTurnOrResets ==
  \/ /\ game.status = WAITING
     /\ \E playerId \in PlayerIds(game.players) : StartGame(playerId)
     /\ game'.status = IN_PROGRESS
  \/ lastResult'.op = "proposeArtist" /\ lastResult'.isValid
  \/ TimerFire /\ game' # game
  \/ /\ game.status = FINISHED
     /\ \E playerId \in PlayerIds(game.players) : ResetGame(playerId)
     /\ game'.status = WAITING

C19_AcceptedMoveEffects ==
  [][\A c \in InflightCalls : \A v \in validateMove(c.game.lastArtist, c.artistName) :
       (ProposeComplete(c, v) /\ lastResult'.isValid)
         => /\ game'.lastArtist = v.canonical
            /\ game'.usedArtists = Append(c.game.usedArtists, KeyOf(v.canonical))
            /\ game'.turns = Append(c.game.turns,
                                    createTurn(c.playerId, c.artistName, TRUE,
                                               c.game.attemptsUsed + 1, "NONE"))
            /\ game'.players = c.game.players
            /\ game'.status = IN_PROGRESS
            /\ game'.currentPlayerIndex
                 = NextInRoundRobin(c.game.players, c.game.currentPlayerIndex)
            /\ game'.attemptsUsed = 0
            /\ game'.currentTurnEndsAt = now + TURN_DURATION_MS]_vars

\* C19 witness: a move was accepted on the second attempt of a turn and the
\* next turn is open.
C19_Witness ==
  /\ lastResult = Result("proposeArtist", TRUE, "NONE")
  /\ game.turns[Len(game.turns)].attemptNumber = 2
  /\ game.attemptsUsed = 0
  /\ game.currentTurnEndsAt = now + TURN_DURATION_MS

\* C20: whenever the stored Game or Run is FINISHED, no turn timer is pending
\* for it and its turn deadline is cleared.
C20_FinishedHasNoTimerNoDeadline ==
  /\ game.status = FINISHED
       => /\ ~(gameTimer.set /\ gameTimer.live)
          /\ game.currentTurnEndsAt = UNDEFINED_AT
  /\ run.status = FINISHED
       => /\ ~(runTimer.set /\ runTimer.live)
          /\ run.currentTurnEndsAt = UNDEFINED_AT

\* The ids of the eliminated participants of g.
Eliminated(g) == {g.players[i].id : i \in {j \in DOMAIN g.players : g.players[j].isEliminated}}

Identities(g) == [i \in DOMAIN g.players |-> <<g.players[i].id, g.players[i].name>>]

IsHost(g, playerId) == g.players[1].id = playerId

\* C22: a reset requested by anybody but the host, or on a Game that is not
\* FINISHED, leaves the game and its timer as they are; a reset by the host of
\* a FINISHED Game stores status WAITING with the same participants in the
\* same order, nobody eliminated, empty history, empty usedArtists, no
\* lastArtist, no deadline, attemptsUsed = 0, and leaves no timer pending.
C22_ResetGame ==
  [][\A playerId \in PlayerIds(game.players) :
       ResetGame(playerId)
         => IF IsHost(game, playerId) /\ game.status = FINISHED
            THEN /\ game'.status = WAITING
                 /\ Identities(game') = Identities(game)
                 /\ Eliminated(game') = {}
                 /\ game'.turns = <<>>
                 /\ game'.usedArtists = <<>>
                 /\ game'.lastArtist = NO_ARTIST
                 /\ game'.currentTurnEndsAt = UNDEFINED_AT
                 /\ game'.attemptsUsed = 0
                 /\ game'.currentPlayerIndex = 0
                 /\ ~(gameTimer'.set /\ gameTimer'.live)
            ELSE game' = game /\ gameTimer' = gameTimer]_vars

\* C22 witness: a game that was played to its end is WAITING again, with a
\* clean slate and no timer.
C22_Witness ==
  /\ game.status = WAITING
  /\ proposals > 0
  /\ Len(game.players) >= 2
  /\ gameTimer = NoTimer

\* C23: a start requested by the host of a WAITING Game with at least two
\* participants stores status IN_PROGRESS with the first non-eliminated
\* participant as holder, attemptsUsed = 0, deadline = now + 30 s and
\* everything else as it was; any other start leaves the stored game and its
\* timer as they are.
C23_StartGame ==
  [][\A playerId \in PlayerIds(game.players) :
       StartGame(playerId)
         => IF IsHost(game, playerId) /\ Len(game.players) >= 2 /\ game.status = WAITING
            THEN /\ game'.status = IN_PROGRESS
                 /\ ~game'.players[game'.currentPlayerIndex + 1].isEliminated
                 /\ \A i \in 1..game'.currentPlayerIndex : game'.players[i].isEliminated
                 /\ game'.attemptsUsed = 0
                 /\ game'.currentTurnEndsAt = now + TURN_DURATION_MS
                 /\ game'.players = game.players
                 /\ game'.turns = game.turns
                 /\ game'.usedArtists = game.usedArtists
                 /\ game'.lastArtist = game.lastArtist
            ELSE game' = game /\ gameTimer' = gameTimer]_vars

\* C23 witness: a game of three has just been started and nothing has been
\* submitted yet.
C23_Witness ==
  /\ game.status = IN_PROGRESS
  /\ Len(game.players) = 3
  /\ game.turns = <<>>
  /\ game.attemptsUsed = 0
  /\ game.currentTurnEndsAt = now + TURN_DURATION_MS
  /\ inflight = EmptyBag
  /\ lastResult = NoResult

\* A step in which the host's reset of a finished game takes effect.
ResetStep ==
  /\ game.status = FINISHED
  /\ game'.status = WAITING
  /\ \E playerId \in PlayerIds(game.players) : ResetGame(playerId)

\* C24: in every step that is not a reset, a participant who is eliminated in
\* the stored Game is still eliminated in the stored Game after the step.
C24_EliminationIsPermanent ==
  [][~ResetStep => Eliminated(game) \subseteq Eliminated(game')]_vars

\* C25: in every step that is not a reset, the stored history (Game turns,
\* Run moves) before the step is a prefix of the stored history after it.
C25_HistoryAppendOnly ==
  [][~ResetStep => /\ IsPrefix(game.turns, game'.turns)
                   /\ IsPrefix(run.moves, run'.moves)]_vars

\* C26: a failure of an external source during a submit never leaves the
\* engine as a raised error and never ends the Run with reason OTHER.
C26_SourceFailureAbsorbed ==
  /\ lastResult.reason # "THROWN"
  /\ ~(run.status = FINISHED /\ run.endReason = "OTHER")

\* C27: a validation whose relation answer came through an error path (a
\* caught error, a failed QID lookup) ends without a write to the relation
\* cache.
C27_ErrorResultNotCached ==
  [][\A id \in DOMAIN validations :
       (validations[id].pc # "done" /\ validations'[id].pc = "done"
          /\ validations'[id].errorPath)
         => collaborationCache' = collaborationCache]_vars

\* C28: a validation started after a confirmed result for the same
\* unordered pair sends no external request, neither for the resolution of
\* the name nor for the relation.
C28_ConfirmedPairNeedsNoCall ==
  \A id \in DOMAIN validations :
    validations[id].afterConfirmed => validations[id].external = {}

\* The cache keys for which p has a Wikidata request under way.
KeysInFlight(p) ==
  IF p.pc = "wdSparql"
  THEN {<<"pair", getCacheKey(p.previousArtist.name, p.canonical.name)>>}
  ELSE IF p.pc = "wdQids"
  THEN {<<"name", name>> : name \in {n \in {p.previousArtist.name, p.canonical.name} :
                                        \/ n = p.previousArtist.name /\ p.prevQid = "absent"
                                        \/ n = p.canonical.name /\ p.currQid = "absent"}}
  ELSE {}

\* C29: no two validations have an external request under way for the same
\* cache key.
C29_OneCallPerKey ==
  \A i, j \in DOMAIN validations :
    i # j => KeysInFlight(validations[i]) \cap KeysInFlight(validations[j]) = {}

\* C30: for a resolved candidate and a previous artist, the primary source
\* is asked only when both artists carry an MBID, the fallback only when the
\* primary did not confirm; validRelation is (primary confirmed) or (fallback
\* confirmed), source is 'musicbrainz' exactly when the primary confirmed and
\* 'wikidata_fallback' exactly when only the fallback confirmed.
C30_PrimaryThenFallback ==
  \A id \in DOMAIN validations :
    LET p == validations[id]
    IN /\ "musicbrainz" \in p.queried => BothMbids(p)
       /\ "wikidata" \in p.queried => p.mbAnswer # "true"
       /\ (p.pc = "done" /\ ~p.result.threw /\ p.result.exists
             /\ p.previousArtist # NO_ARTIST)
            => /\ p.result.validRelation = (p.mbAnswer = "true" \/ p.wdAnswer = "true")
               /\ p.source = "musicbrainz" <=> p.mbAnswer = "true"
               /\ p.source = "wikidata_fallback"
                    <=> (p.mbAnswer # "true" /\ p.wdAnswer = "true")

\* C30 witness: the primary source found no recording, the fallback did, and
\* the validation ended with a relation from the fallback.
C30_Witness ==
  \E id \in DOMAIN validations :
    /\ validations[id].pc = "done"
    /\ validations[id].mbAnswer = "false"
    /\ validations[id].wdAnswer = "true"
    /\ validations[id].result.validRelation
    /\ validations[id].source = "wikidata_fallback"

StepsAhead(p) ==
  IF p.pc = "done" THEN 0
  ELSE IF p.pc = "mbCollaborators" THEN 1
  ELSE IF p.pc = "wdSparql" THEN 2
  ELSE IF p.pc = "wdQids" THEN 3
  ELSE IF p.pc = "mbRecording" THEN 4
  ELSE 5 + (SEARCH_STRATEGIES - p.strategy)

\* C32: retry sends the request at most 3 times; a request is sent again
\* only after the one before failed with a network error; any other error
\* ends the call after that attempt, and what the call comes to is what the
\* first answer that is not a retried network error makes it; and every
\* step of a validateMove call brings it strictly closer to its end, so the
\* call ends after a bounded number of retried requests whatever they answer.
C32_RetryBounded ==
  [][/\ retrying'.made <= MAX_RETRIES
     /\ retrying'.made > retrying.made
          => /\ retrying'.made = retrying.made + 1
             /\ retrying.made > 0 => retrying.answers[retrying.made] = "network"
             /\ retrying.answers[retrying'.made] = "error" => retrying'.status = "throw"
             /\ retrying.answers[retrying'.made] = "ok" => retrying'.status = "ok"
     /\ retrying'.status \in {"ok", "throw", "null"}
          => retrying'.status = retry(retrying'.answers)
     /\ \A id \in DOMAIN validations :
          validations'[id] # validations[id]
            => StepsAhead(validations'[id]) < StepsAhead(validations[id])
    ]_vars

\* C32 witness: three network errors in a row: the request was sent three
\* times and the third error was thrown, although a fourth answer was there.
C32_Witness ==
  /\ retrying.status = "throw"
  /\ retrying.made = MAX_RETRIES
  /\ \A i \in 1..MAX_RETRIES : retrying.answers[i] = "network"
  /\ retrying.answers[MaxAnswers] = "ok"

\* The bucket tables of the scoring rules, in hundredths: rows of
\* <<from, to, multiplier>>, and the multiplier outside every row.
PairTable == <<<<0, 0, 100>>, <<1, 1, 130>>, <<2, 3, 118>>, <<4, 7, 108>>, <<8, 15, 103>>>>
DegreeTable == <<<<0, 10, 105>>, <<11, 25, 103>>, <<26, 60, 101>>>>
TimeTable == <<<<0, 5, 120>>, <<6, 10, 112>>, <<11, 20, 106>>, <<21, 35, 102>>>>
CategoryTable ==
  [category \in Categories |->
     CASE category = "ultra_mainstream" -> 100
       [] category = "mainstream" -> 102
       [] category = "connu" -> 104
       [] category = "niche" -> 108
       [] category = "underground" -> 112]

FromTable(table, x) ==
  IF \E i \in DOMAIN table : table[i][1] <= x /\ x <= table[i][2]
  THEN LET i == CHOOSE i \in DOMAIN table : table[i][1] <= x /\ x <= table[i][2]
       IN table[i][3]
  ELSE 100

\* The multipliers of a ScoringDetails in hundredths.
Hundredths(d) ==
  [pairBonus |-> d.pairBonus, degreeBonus |-> d.degreeBonus,
   categoryBonus |-> 2 * d.categoryBonus, timeBonus |-> 2 * d.timeBonus,
   chainBonus |-> 5 * d.chainBonus]

\* r is Math.round of BASE_POINTS times the five multipliers of d: the raw
\* score lies in [r - 1/2, r + 1/2).
IsRoundedRaw(d, r) ==
  LET numerator == d.pairBonus * d.degreeBonus * d.categoryBonus * d.timeBonus * d.chainBonus
      denominator == (100 * 100 * 50 * 50 * 20) \div BASE_POINTS
      half == denominator \div 2
      off == numerator - r * denominator
  IN 0 - half <= off /\ off < half

\* C33: every call of calculateScore returns the pair count, degree and
\* category of the providers (0, 0 and niche for an id without entry), each
\* multiplier from its bucket table, the chain multiplier
\* 1 + min(0.20, 0.05 * floor((turn - 1) / 5)), and finalScore =
\* min(round(100 * product of the five multipliers), 280); pair count 1,
\* degree 5, niche, 3 s, turn 1 give 1.30, 1.05, 1.08, 1.20, 1.00 and 177.
C33_CalculateScore ==
  scored.called =>
    LET d == scored.details
        h == Hundredths(d)
        ids == scored.previousArtistMbid # NO_MBID /\ scored.currentArtistMbid # NO_MBID
    IN /\ d.pairFamilyCount =
            (IF ids /\ providerCache.pairStats # NOT_LOADED THEN providerCache.pairStats ELSE 0)
       /\ d.degree =
            (IF scored.currentArtistMbid # NO_MBID /\ providerCache.degree # NOT_LOADED
             THEN providerCache.degree ELSE 0)
       /\ d.category =
            (IF scored.currentArtistMbid # NO_MBID /\ providerCache.category # NO_CATEGORY
             THEN providerCache.category ELSE "niche")
       /\ h.pairBonus = FromTable(PairTable, d.pairFamilyCount)
       /\ h.degreeBonus = FromTable(DegreeTable, d.degree)
       /\ h.categoryBonus = CategoryTable[d.category]
       /\ h.timeBonus = FromTable(TimeTable, d.timeSpent)
       /\ h.chainBonus = 100 + Min(20, 5 * ((d.chainLength - 1) \div 5))
       /\ \E r \in 0..(SCORE_CAP + BASE_POINTS) :
            IsRoundedRaw(d, r) /\ d.finalScore = Min(r, SCORE_CAP)
       /\ (/\ d.pairFamilyCount = 1 /\ d.degree = 5 /\ d.category = "niche"
           /\ d.timeSpent = 3 /\ d.chainLength = 1)
            => /\ h = [pairBonus |-> 130, degreeBonus |-> 105, categoryBonus |-> 108,
                       timeBonus |-> 120, chainBonus |-> 100]
               /\ d.finalScore = 177

\* C33 witness: the worked example has been scored from loaded entries.
C33_Witness ==
  /\ scored.called
  /\ providerCache = [pairStats |-> 1, degree |-> 5, category |-> "niche"]
  /\ scored.details.pairFamilyCount = 1 /\ scored.details.degree = 5
  /\ scored.details.timeSpent = 3 /\ scored.details.chainLength = 1
  /\ scored.details.finalScore = 177

\* The scenario of a frequent pair on the first turn after 40 seconds.
FrequentPairSlowFirstTurn(d) ==
  d.pairFamilyCount = 20 /\ d.chainLength = 1 /\ d.timeSpent = 40

\* Every multiplier but the category's is 1.00 and the score is
\* round(100 * categoryBonus).
OnlyCategoryCounts(d) ==
  LET h == Hundredths(d)
  IN /\ h.pairBonus = 100 /\ h.degreeBonus = 100
     /\ h.timeBonus = 100 /\ h.chainBonus = 100
     /\ d.finalScore = CategoryTable[d.category]

\* C34 as stated: with pair count 20, turn 1 and 40 seconds elapsed, every
\* multiplier but the category's is 1.00 and finalScore = round(100 *
\* categoryBonus), whatever the degree and the category of the candidate.
C34_AnyDegree ==
  (scored.called /\ FrequentPairSlowFirstTurn(scored.details))
    => OnlyCategoryCounts(scored.details)

\* C34 amended: the same for a candidate whose degree is above 60; up to 60
\* the degree multiplier is above 1.00 and enters the score.
C34_DegreeAbove60 ==
  (scored.called /\ FrequentPairSlowFirstTurn(scored.details))
    => IF scored.details.degree > 60
       THEN OnlyCategoryCounts(scored.details)
       ELSE /\ Hundredths(scored.details).degreeBonus > 100
            /\ scored.details.finalScore > CategoryTable[scored.details.category]

\* C34 witness: the scenario scored for an underground candidate of degree 61.
C34_Witness ==
  /\ scored.called
  /\ FrequentPairSlowFirstTurn(scored.details)
  /\ scored.details.degree = 61
  /\ scored.details.category = "underground"
  /\ scored.details.finalScore = 112

\* r is from with exactly one move added, an invalid one.
OneInvalidMoveAdded(from, r) ==
  /\ Len(r.moves) = Len(from.moves) + 1
  /\ SubSeq(r.moves, 1, Len(from.moves)) = from.moves
  /\ ~r.moves[Len(r.moves)].isValid

\* C35: a makeMove that comes back from the validation without an accepted
\* move stores the run it was made on as FINISHED, with an endReason, one
\* invalid move added and no turn timer; a timeout applied to a run in
\* progress, by the timer callback or by the deadline check of makeMove,
\* does the same with endReason TIMEOUT; and a makeMove on a FINISHED run
\* returns OTHER and changes nothing.
C35_RunElimination ==
  [][/\ \A c \in runInflight :
          (/\ \E v \in validateMove(c.run.currentArtist, c.artistName) :
                \E stats \in ProviderAnswers(c.run.currentArtist.mbid, v.canonical.mbid) :
                  MakeMoveComplete(c, v, stats)
           /\ ~lastResult'.isValid)
            => /\ run'.status = FINISHED
               /\ run'.endReason \in {"REPEAT", "INVALID_FEAT", "OTHER"}
               /\ OneInvalidMoveAdded(c.run, run')
               /\ run'.moves[Len(run'.moves)].invalidReason = lastResult'.reason
               /\ ~runTimer'.set
     /\ (/\ SoloTimerFire \/ \E artistName \in ArtistNames : MakeMoveBegin(artistName)
         /\ run.status = IN_PROGRESS
         /\ run'.status # IN_PROGRESS)
          => /\ run'.status = FINISHED
             /\ run'.endReason = "TIMEOUT"
             /\ OneInvalidMoveAdded(run, run')
             /\ run'.moves[Len(run'.moves)].invalidReason = "TIMEOUT"
             /\ ~runTimer'.set
     /\ \A artistName \in ArtistNames :
          (MakeMoveBegin(artistName) /\ run.status = FINISHED)
            => /\ lastResult' = Result("makeMove", FALSE, "OTHER")
               /\ UNCHANGED <<now, gameVars, runVars>>
    ]_vars

\* C35 witness: a run finished by a repeated artist has refused a later
\* makeMove with OTHER.
C35_Witness ==
  /\ run.status = FINISHED
  /\ run.endReason = "REPEAT"
  /\ lastResult = Result("makeMove", FALSE, "OTHER")

\* Guards 1 to 4 of proposeArtist let a submit of playerId through at time t.
GuardsPass(g, playerId, t) ==
  /\ g.status = IN_PROGRESS
  /\ g.players[g.currentPlayerIndex + 1].id = playerId
  /\ ~g.players[g.currentPlayerIndex + 1].isEliminated
  /\ ~isTurnExpired(g, t)

\* C36: whenever a submit would pass the status, holder and deadline guards,
\* the stored attemptsUsed is at most 1, and no submit returns from the
\* attempt check: a refusal with reason OTHER before the validation never
\* adds a turn or eliminates anybody.
C36_AttemptCheckNeverFires ==
  [][/\ \A playerId \in 1..MaxPlayers :
          GuardsPass(game, playerId, now) => game.attemptsUsed + 1 <= MAX_ATTEMPTS_PER_TURN
     /\ \A playerId \in 1..MaxPlayers : \A artistName \in ArtistNames :
          (/\ ProposeBegin(playerId, artistName)
           /\ lastResult' = Result("proposeArtist", FALSE, "OTHER"))
            => game' = game
    ]_vars

\* C36 witness: the holder has used one attempt and may submit again.
C36_Witness ==
  /\ game.status = IN_PROGRESS
  /\ game.attemptsUsed = 1
  /\ GuardsPass(game, game.players[game.currentPlayerIndex + 1].id, now)
  /\ lastResult.reason \in SoftReasons

ValidMoves(r) == SelectSeq(r.moves, LAMBDA m : m.isValid)

RECURSIVE SumFinalScore(_)
SumFinalScore(moves) ==
  IF moves = <<>> THEN 0
  ELSE moves[1].finalScore + SumFinalScore(Tail(moves))

RunTotalsAgree(r) ==
  /\ r.totalScore = SumFinalScore(ValidMoves(r))
  /\ r.currentTurn = 1 + Len(ValidMoves(r))
  /\ \A i \in DOMAIN ValidMoves(r) : ValidMoves(r)[i].turn = i

\* C37: in every state of a run, totalScore is the sum of finalScore over
\* the valid moves of the stored history, currentTurn is 1 plus their number
\* and the i-th valid move carries turn number i; and a step that stores no
\* further valid move leaves totalScore and currentTurn as they were.
C37_RunTotals ==
  [][/\ run.status # ABSENT => RunTotalsAgree(run)
     /\ run'.status # ABSENT => RunTotalsAgree(run')
     /\ (run.status # ABSENT /\ Len(ValidMoves(run')) = Len(ValidMoves(run)))
          => /\ run'.totalScore = run.totalScore
             /\ run'.currentTurn = run.currentTurn
    ]_vars

\* C37 witness: a finished run with two valid moves and a rejected one.
C37_Witness ==
  /\ run.status = FINISHED
  /\ Len(ValidMoves(run)) = 2
  /\ Len(run.moves) = 3
  /\ run.totalScore = run.moves[1].finalScore + run.moves[2].finalScore
  /\ run.totalScore >= 2 * BASE_POINTS

\* C38: every score calculateScore returns lies between 100 and 220, and it
\* is the rounded raw score itself: the cap of 280 has cut nothing off.
C38_ScoreRange ==
  scored.called =>
    /\ BASE_POINTS <= scored.details.finalScore
    /\ scored.details.finalScore <= 220
    /\ 220 < SCORE_CAP
    /\ IsRoundedRaw(scored.details, scored.details.finalScore)

\* C38 witness: the highest score, from the highest bucket of every bonus.
C38_Witness ==
  /\ scored.called
  /\ scored.details.finalScore = 220
  /\ Hundredths(scored.details) =
       [pairBonus |-> 130, degreeBonus |-> 105, categoryBonus |-> 112,
        timeBonus |-> 120, chainBonus |-> 120]

\* C39: a join under a name no participant bears adds a participant only
\* while the game is WAITING; while it is IN_PROGRESS or FINISHED the list
\* of participants stays as it is.
C39_JoinOnlyWhileWaiting ==
  [][\A playerName \in JoinNames :
       (/\ JoinGame(playerName)
        /\ playerName \notin PlayerNames(game.players)
        /\ game.status \in {IN_PROGRESS, FINISHED})
         => game'.players = game.players
    ]_vars

\* C40: the participants of a game have pairwise distinct ids, and
\* eliminating one of them by id leaves the isEliminated flag of every other
\* participant as it was.
C40_DistinctIds ==
  \A i \in DOMAIN game.players : \A j \in DOMAIN game.players :
    i # j => /\ game.players[i].id # game.players[j].id
             /\ eliminatePlayer(game, game.players[i].id).players[j].isEliminated
                  = game.players[j].isEliminated
====
